---- MODULE Spec2Model ----
(***************************************************************************)
(* The `when` (core/triggers.py) and `onlyif` (core/conditions.py)         *)
(* decorators of the openHAB helper libraries: the phrase grammars, the    *)
(* first-word dispatch of the two parse orchestrators and the attachment   *)
(* of the parsed triggers / conditions to the decorated callback.          *)
(*                                                                         *)
(* A Python string is a sequence of one-character strings, so that strip,  *)
(* split, lower, the substring test and the regular expressions are        *)
(* computed character by character.  A Python value (a match group, a      *)
(* configuration value) is a record [t, v]: t is the Python type and v the *)
(* characters of its text.                                                 *)
(***************************************************************************)
EXTENDS Integers, Sequences, FiniteSets, TLC

\* ------------------------------------------------------------ characters

LowerAlpha == <<"a","b","c","d","e","f","g","h","i","j","k","l","m","n","o","p","q","r","s","t","u","v","w","x","y","z">>
UpperAlpha == <<"A","B","C","D","E","F","G","H","I","J","K","L","M","N","O","P","Q","R","S","T","U","V","W","X","Y","Z">>
Digits == {"0", "1", "2", "3", "4", "5", "6", "7", "8", "9"}

Range(s) == {s[i] : i \in DOMAIN s}

IsSpace(c) == c = " "
IsDigit(c) == c \in Digits
\* \w of the re module
IsWordChar(c) == c \in Range(LowerAlpha) \cup Range(UpperAlpha) \cup Digits \cup {"_"}

lowerChar(c) ==
    IF c \in Range(UpperAlpha)
    THEN LowerAlpha[CHOOSE i \in DOMAIN UpperAlpha : UpperAlpha[i] = c]
    ELSE c

upperChar(c) ==
    IF c \in Range(LowerAlpha)
    THEN UpperAlpha[CHOOSE i \in DOMAIN LowerAlpha : LowerAlpha[i] = c]
    ELSE c

\* ------------------------------------------------------------ str methods

\* str.lower()
lower(s) == [i \in DOMAIN s |-> lowerChar(s[i])]

\* str.upper() and str.capitalize(): used to spell the input phrases
upper(s) == [i \in DOMAIN s |-> upperChar(s[i])]
capitalize(s) == [i \in DOMAIN s |-> IF i = 1 THEN upperChar(s[i]) ELSE lowerChar(s[i])]

\* s[i:j] of Python with 1-based i and exclusive j
Slice(s, i, j) == IF j <= i THEN <<>> ELSE SubSeq(s, i, j - 1)

\* str.strip()
strip(s) ==
    LET nonspace == {i \in DOMAIN s : ~IsSpace(s[i])}
    IN  IF nonspace = {} THEN <<>>
        ELSE LET first == CHOOSE i \in nonspace : \A j \in nonspace : i <= j
                 last == CHOOSE i \in nonspace : \A j \in nonspace : j <= i
             IN  SubSeq(s, first, last)

\* end (exclusive) of the longest run of characters satisfying the class,
\* starting at i
RECURSIVE SpaceRunEnd(_, _)
SpaceRunEnd(s, i) == IF i <= Len(s) /\ IsSpace(s[i]) THEN SpaceRunEnd(s, i + 1) ELSE i

RECURSIVE NonSpaceRunEnd(_, _)
NonSpaceRunEnd(s, i) == IF i <= Len(s) /\ ~IsSpace(s[i]) THEN NonSpaceRunEnd(s, i + 1) ELSE i

\* str.split() without arguments: the maximal runs of non-whitespace
RECURSIVE splitFrom(_, _)
splitFrom(s, i) ==
    LET b == SpaceRunEnd(s, i)
        e == NonSpaceRunEnd(s, b)
    IN  IF b > Len(s) THEN <<>> ELSE <<Slice(s, b, e)>> \o splitFrom(s, e)

split(s) == splitFrom(s, 1)

\* str.startswith
startswith(s, p) == Len(p) <= Len(s) /\ SubSeq(s, 1, Len(p)) = p

\* `a in b` for two str: a is a substring of b
IsSubstring(a, b) == \E i \in 0..(Len(b) - Len(a)) : SubSeq(b, i + 1, i + Len(a)) = a

\* words joined by single spaces
RECURSIVE JoinWords(_)
JoinWords(ws) ==
    IF ws = <<>> THEN <<>>
    ELSE IF Len(ws) = 1 THEN ws[1]
    ELSE ws[1] \o <<" ">> \o JoinWords(Tail(ws))

AllOf(s, P(_)) == \A i \in DOMAIN s : P(s[i])

\* an assignment `name = value` followed by the code that uses the name: the
\* value is an argument of the code after it
With(value, after(_)) == after(value)

\* a keyword of a pattern compiled with re.IGNORECASE
EqIC(tok, kw) == lower(tok) = lower(kw)

\* ------------------------------------------------------------ Python values

PyNone == [t |-> "NoneType", v |-> <<>>]
PyTrue == [t |-> "bool", v |-> <<"T","r","u","e">>]
PyFalse == [t |-> "bool", v |-> <<"F","a","l","s","e">>]
PyBool(b) == IF b THEN PyTrue ELSE PyFalse
PyStr(s) == [t |-> "str", v |-> s]
PyInt(digits) == [t |-> "int", v |-> digits]

\* ------------------------------------------------------------ registries

\* The item registry the script extension hands out: three plain items, the
\* group G with the immediate members A, H, C and the nested group H with the
\* member B, and the DateTime item Clock.
PlainItems == {<<"A">>, <<"B">>, <<"C">>, <<"C","l","o","c","k">>}
GroupMembers == [g \in {<<"G">>, <<"H">>} |-> IF g = <<"G">> THEN <<<<"A">>, <<"H">>, <<"C">>>> ELSE <<<<"B">>>>]
IsGroup(name) == name \in DOMAIN GroupMembers

\* itemRegistry.getItem(itemName) behind the lazily loaded handle: the item,
\* or None for a name the registry does not hold
getItem(itemName) ==
    IF itemName \in PlainItems \cup DOMAIN GroupMembers THEN PyStr(itemName) ELSE PyNone

\* item.getMembers(): the immediate members, in the registry's order
getMembers(name) == GroupMembers[name]

\* item.getAllMembers(): the transitive members, in the registry's order
RECURSIVE getAllMembersOf(_)
getAllMembersOf(names) ==
    IF names = <<>> THEN <<>>
    ELSE LET n == Head(names)
         IN  <<n>> \o (IF IsGroup(n) THEN getAllMembersOf(GroupMembers[n]) ELSE <<>>)
                   \o getAllMembersOf(Tail(names))

getAllMembers(name) == getAllMembersOf(GroupMembers[name])

\* things.get(ThingUID(thingUID)) and things.getChannel(ChannelUID(channelUID))
KnownThings == {<<"h","u","e",":","b",":","1">>}
KnownChannels == {<<"h","u","e",":","b",":","1",":","s","w">>}
getThing(thingUID) == IF thingUID \in KnownThings THEN PyStr(thingUID) ELSE PyNone
getChannel(channelUID) == IF channelUID \in KnownChannels THEN PyStr(channelUID) ELSE PyNone

\* ------------------------------------------------------------ descriptors

\* A trigger or condition as built by TriggerBuilder / ConditionBuilder: the
\* type UID and the Configuration, a set of key/value entries.
Descriptor(typeUID, cfg) == [typeUID |-> typeUID, cfg |-> cfg]
Entry(k, v) == [k |-> k, v |-> v]
\* the entries a constructor adds only `if value is not None`
Optional(k, v) == IF v = PyNone THEN {} ELSE {Entry(k, v)}

\* what the decorators append for a phrase that could not be parsed
NoneEntry == Descriptor("None", {})

\* The outcome of a grammar's parse classmethod or of an orchestrator:
\*   kind "none"   returned None (the grammar declines)
\*   kind "one"    returned one trigger / condition
\*   kind "list"   returned a list of triggers (group expansion)
\*   kind "raise"  raised: exc is the exception class, msg the message's kind
\* lookups records the registry handles the call went through.
Declined == [kind |-> "none", descs |-> <<>>, exc |-> "", msg |-> "", lookups |-> {}]
ReturnOne(d, lk) == [kind |-> "one", descs |-> <<d>>, exc |-> "", msg |-> "", lookups |-> lk]
ReturnList(ds, lk) == [kind |-> "list", descs |-> ds, exc |-> "", msg |-> "", lookups |-> lk]
Raise(exc, msg, lk) == [kind |-> "raise", descs |-> <<>>, exc |-> exc, msg |-> msg, lookups |-> lk]

\* the ValueError messages of the two modules
InvalidItemName == "Invalid item name"
InvalidThingUID == "Invalid thing UID"
InvalidChannelUID == "Invalid channel UID"
CouldNotParse == "Could not parse"
ExpressionIsLength0 == "expression is length 0"
UnableToNegate == "Unable to negate custom daytype"
ParameterInvalid == "Paramater invalid"

\* ------------------------------------------------------------ pattern helpers

\* A match group that did not take part in the match is None; NoMatch is the
\* result of a sub-pattern that fails.
NoMatch == [t |-> "nomatch", v |-> <<>>]

\* exclusive end / start of the k-th whitespace-separated word of s
RECURSIVE WordEndFrom(_, _, _)
WordEndFrom(s, i, k) ==
    LET e == NonSpaceRunEnd(s, SpaceRunEnd(s, i))
    IN  IF k <= 1 THEN e ELSE WordEndFrom(s, e, k - 1)

WordEnd(s, k) == WordEndFrom(s, 1, k)
WordStart(s, k) == SpaceRunEnd(s, IF k <= 1 THEN 1 ELSE WordEnd(s, k - 1))

\* the literal kw, compared ignoring case, at position i of s
LiteralAt(s, i, kw) == i + Len(kw) - 1 <= Len(s) /\ EqIC(SubSeq(s, i, i + Len(kw) - 1), kw)

\* '[^']+' at position i: the exclusive end of the quoted text, or 0
QuotedEnd(s, i) ==
    IF i <= Len(s) /\ s[i] = "'" /\ (\E k \in (i + 1)..Len(s) : s[k] = "'")
    THEN LET k == CHOOSE k \in (i + 1)..Len(s) :
                      s[k] = "'" /\ \A j \in (i + 1)..(k - 1) : s[j] # "'"
         IN  IF k >= i + 2 THEN k + 1 ELSE 0
    ELSE 0

\* ('[^']+'|\S+) at position i: the exclusive ends the matcher tries, in the
\* order it tries them (the quoted alternative, then the longest \S+; a
\* shorter \S+ is followed by a non-space and cannot be continued by \s or $)
ValueEnds(s, i) ==
    (IF QuotedEnd(s, i) # 0 THEN <<QuotedEnd(s, i)>> ELSE <<>>)
        \o (IF NonSpaceRunEnd(s, i) > i THEN <<NonSpaceRunEnd(s, i)>> ELSE <<>>)

\* (?:\s+(?P<state>'[^']+'|\S+))*$ from position i: the last capture of the
\* group (None after no iteration), or NoMatch
RECURSIVE StateTail(_, _, _)
StateTail(s, i, last) ==
    LET b == SpaceRunEnd(s, i)
        ends == IF b > i THEN ValueEnds(s, b) ELSE <<>>
        try(n) == StateTail(s, ends[n], PyStr(Slice(s, b, ends[n])))
        ok == {n \in DOMAIN ends : try(n) # NoMatch}
    IN  IF ok # {} THEN try(CHOOSE n \in ok : \A m \in ok : n <= m)
        ELSE IF i > Len(s) THEN last
        ELSE NoMatch

\* (?:\s+kw\s+(?P<g>'[^']+'|\S+))* followed by `rest`, for the from / to
\* clauses of the change pattern.  ToTail gives the capture of `state`.
RECURSIVE ToTail(_, _, _)
ToTail(s, i, last) ==
    LET b == SpaceRunEnd(s, i)
        c == SpaceRunEnd(s, b + 2)
        ends == IF b > i /\ LiteralAt(s, b, <<"t","o">>) /\ c > b + 2 THEN ValueEnds(s, c) ELSE <<>>
        try(n) == ToTail(s, ends[n], PyStr(Slice(s, c, ends[n])))
        ok == {n \in DOMAIN ends : try(n) # NoMatch}
    IN  IF ok # {} THEN try(CHOOSE n \in ok : \A m \in ok : n <= m)
        ELSE IF i > Len(s) THEN last
        ELSE NoMatch

\* FromTail gives [previousState, state], or NoMatch
RECURSIVE FromTail(_, _, _)
FromTail(s, i, last) ==
    LET b == SpaceRunEnd(s, i)
        c == SpaceRunEnd(s, b + 4)
        ends == IF b > i /\ LiteralAt(s, b, <<"f","r","o","m">>) /\ c > b + 4 THEN ValueEnds(s, c) ELSE <<>>
        try(n) == FromTail(s, ends[n], PyStr(Slice(s, c, ends[n])))
        ok == {n \in DOMAIN ends : try(n) # NoMatch}
    IN  IF ok # {} THEN try(CHOOSE n \in ok : \A m \in ok : n <= m)
        ELSE IF ToTail(s, i, PyNone) # NoMatch
             THEN [previousState |-> last, state |-> ToTail(s, i, PyNone)]
        ELSE NoMatch

\* (?:\s+(?P<g>\w+))*$ over the words from the k-th on: the last capture
WordTail(w, k) ==
    IF \A n \in k..Len(w) : AllOf(w[n], IsWordChar)
    THEN (IF Len(w) >= k THEN PyStr(w[Len(w)]) ELSE PyNone)
    ELSE NoMatch

\* ------------------------------------------------------------ StartupTrigger

StartupTrigger(startLevel) ==
    Descriptor("core.SystemStartlevelTrigger",
               {Entry("startlevel", IF startLevel = PyNone THEN PyInt(<<"4","0">>) ELSE startLevel)})

\* ^System\s+(?:started|reached\s+start\s+level\s+(?P<startLevel>\d+))$
StartupTrigger_parse(target) ==
    LET w == split(target)
    IN  IF Len(w) = 2 /\ EqIC(w[1], <<"s","y","s","t","e","m">>) /\ EqIC(w[2], <<"s","t","a","r","t","e","d">>)
        THEN ReturnOne(StartupTrigger(PyNone), {})
        ELSE IF /\ Len(w) = 5
                /\ EqIC(w[1], <<"s","y","s","t","e","m">>) /\ EqIC(w[2], <<"r","e","a","c","h","e","d">>)
                /\ EqIC(w[3], <<"s","t","a","r","t">>) /\ EqIC(w[4], <<"l","e","v","e","l">>)
                /\ AllOf(w[5], IsDigit)
        THEN ReturnOne(StartupTrigger(PyStr(w[5])), {})
        ELSE Declined

\* ------------------------------------------------------------ CronTrigger

\* one field of a cron expression: re.match, so a prefix of the field has to
\* match one of the alternatives
\*   \? | (\*|\d+)(\/\d+)? | (\d+|\w{3})(\/|-)(\d+|\w{3}) | ((\d+|\w{3}),)*(\d+|\w{3})
\* The disjuncts are the first, the second and the last alternative with its
\* starred prefix taken zero times; whatever the third alternative matches
\* begins with \d or \w{3} and is matched by the last one as well.
ThreeWordChars(p, i) == i + 2 <= Len(p) /\ \A j \in i..(i + 2) : IsWordChar(p[j])
CronFieldMatches(p) ==
    \/ p[1] = "?"
    \/ p[1] = "*" \/ IsDigit(p[1])
    \/ IsDigit(p[1]) \/ ThreeWordChars(p, 1)

NamedSchedules == {<<"a","n","n","u","a","l","l","y">>, <<"y","e","a","r","l","y">>, <<"m","o","n","t","h","l","y">>, <<"w","e","e","k","l","y">>, <<"d","a","i","l","y">>, <<"h","o","u","r","l","y">>, <<"r","e","b","o","o","t">>}

\* the replacement of org.quartz.CronExpression.isValidExpression; a falsy
\* result (False, or the None of falling off the end) is FALSE
isValidExpression(expression) ==
    LET expr == strip(expression)
        parts == split(expr)
    IN  IF startswith(expr, <<"@">>)
        THEN \E n \in NamedSchedules : startswith(Tail(expr), n)
        ELSE /\ 6 <= Len(parts) /\ Len(parts) <= 7
             /\ \A i \in DOMAIN parts : CronFieldMatches(parts[i])

CronTrigger(cron_expression) ==
    Descriptor("timer.GenericCronTrigger", {Entry("cronExpression", PyStr(cron_expression))})

MidnightCron == <<"0"," ","0"," ","0"," ","*"," ","*"," ","?">>
NoonCron == <<"0"," ","0"," ","1","2"," ","*"," ","*"," ","?">>

\* ^Time\s+(?:cron\s+(?P<cronExpression>.*)|is\s+(?P<namedInstant>midnight|noon))$
\* The groups of the match, or NoMatch.
CronTrigger_match(target) ==
    LET w == split(target)
    IN  IF Len(w) >= 3 /\ EqIC(w[1], <<"t","i","m","e">>) /\ EqIC(w[2], <<"c","r","o","n">>)
        THEN [cronExpression |-> PyStr(Slice(target, WordStart(target, 3), Len(target) + 1)),
              namedInstant |-> PyNone]
        ELSE IF /\ Len(w) = 3 /\ EqIC(w[1], <<"t","i","m","e">>) /\ EqIC(w[2], <<"i","s">>)
                /\ (EqIC(w[3], <<"m","i","d","n","i","g","h","t">>) \/ EqIC(w[3], <<"n","o","o","n">>))
        THEN [cronExpression |-> PyNone, namedInstant |-> PyStr(w[3])]
        ELSE NoMatch

CronTrigger_parse(target) ==
    LET match == CronTrigger_match(target)
        cronExpression ==
            IF match # NoMatch
            THEN IF match.namedInstant = PyNone THEN match.cronExpression.v
                 ELSE IF match.namedInstant = PyStr(<<"m","i","d","n","i","g","h","t">>) THEN MidnightCron
                 ELSE NoonCron
            ELSE target
    IN  IF isValidExpression(cronExpression)
        THEN ReturnOne(CronTrigger(cronExpression), {})
        ELSE Declined

\* ------------------------------------------------------------ DateTimeTrigger

DateTimeTrigger(itemName, timeOnly) ==
    Descriptor("timer.DateTimeTrigger",
               {Entry("itemName", PyStr(itemName))} \cup Optional("timeOnly", timeOnly))

\* ^Time\s+is\s+(?P<itemName>\S*)(?:\s+\[(?P<timeOnly>timeOnly)\])*$
DateTimeTrigger_match(target) ==
    LET w == split(target)
    IN  IF /\ Len(w) >= 3 /\ EqIC(w[1], <<"t","i","m","e">>) /\ EqIC(w[2], <<"i","s">>)
           /\ \A n \in 4..Len(w) : EqIC(w[n], <<"[","t","i","m","e","O","n","l","y","]">>)
        THEN [itemName |-> w[3],
              timeOnly |-> IF Len(w) >= 4
                           THEN PyStr(SubSeq(w[Len(w)], 2, Len(w[Len(w)]) - 1))
                           ELSE PyNone]
        ELSE NoMatch

\* DateTimeTrigger.parse with the slip of treating an unknown item as no
\* match: it returns None instead of raising
DateTimeTrigger_parse_unknownItemDeclines(target) ==
    LET match == DateTimeTrigger_match(target)
    IN  IF match = NoMatch THEN Declined
        ELSE IF getItem(match.itemName) = PyNone
        THEN [Declined EXCEPT !.lookups = {"itemRegistry"}]
        ELSE ReturnOne(DateTimeTrigger(match.itemName, PyBool(match.timeOnly = PyStr(<<"t","i","m","e","O","n","l","y">>))),
                       {"itemRegistry"})

DateTimeTrigger_parse(target) ==
    LET match == DateTimeTrigger_match(target)
    IN  IF match = NoMatch THEN Declined
        ELSE IF getItem(match.itemName) = PyNone
        THEN Raise("ValueError", InvalidItemName, {"itemRegistry"})
        ELSE ReturnOne(DateTimeTrigger(match.itemName, PyBool(match.timeOnly = PyStr(<<"t","i","m","e","O","n","l","y">>))),
                       {"itemRegistry"})

\* ------------------------------------------------------------ item triggers

ItemStateUpdateTrigger(item_name, state) ==
    Descriptor("core.ItemStateUpdateTrigger",
               {Entry("itemName", PyStr(item_name))} \cup Optional("state", state))

ItemStateChangeTrigger(item_name, previous_state, state) ==
    Descriptor("core.ItemStateChangeTrigger",
               {Entry("itemName", PyStr(item_name))}
                   \cup Optional("state", state) \cup Optional("previousState", previous_state))

ItemCommandTrigger(item_name, command) ==
    Descriptor("core.ItemCommandTrigger",
               {Entry("itemName", PyStr(item_name))} \cup Optional("command", command))

\* ^(?:(?P<subItems>Member|Descendent)\s+of|Item)\s+(?P<itemName>\w+)\s+<verb>
\* where <verb> is one or two keywords: the groups subItems and itemName and
\* the number of words matched, or NoMatch
ItemPrefix_match(w, verb) ==
    LET k == IF /\ Len(w) >= 2
                /\ (EqIC(w[1], <<"m","e","m","b","e","r">>) \/ EqIC(w[1], <<"d","e","s","c","e","n","d","e","n","t">>))
                /\ EqIC(w[2], <<"o","f">>)
             THEN 3
             ELSE IF Len(w) >= 1 /\ EqIC(w[1], <<"i","t","e","m">>) THEN 2
             ELSE 0
    IN  IF /\ k # 0
           /\ Len(w) >= k + Len(verb)
           /\ AllOf(w[k], IsWordChar)
           /\ \A n \in DOMAIN verb : EqIC(w[k + n], verb[n])
        THEN [subItems |-> IF k = 3 THEN PyStr(w[1]) ELSE PyNone,
              itemName |-> w[k],
              words |-> k + Len(verb)]
        ELSE NoMatch

\* item.getMembers() if match.group('subItems') == "Member" else item.getAllMembers()
\* on an item that is not a group, which has neither method
groupMembers(itemName, subItems) ==
    IF subItems = PyStr(<<"M","e","m","b","e","r">>) THEN getMembers(itemName) ELSE getAllMembers(itemName)

\* the part the three item grammars share after the match: the lookup of the
\* item, then one trigger for the item or one per member of the group;
\* build(name) is cls(name, <captures>)
ItemTriggers(m, build(_)) ==
    IF getItem(m.itemName) = PyNone
    THEN Raise("ValueError", InvalidItemName, {"itemRegistry"})
    ELSE IF m.subItems = PyNone
    THEN ReturnOne(build(m.itemName), {"itemRegistry"})
    ELSE IF ~IsGroup(m.itemName)
    THEN Raise("AttributeError", "getMembers", {"itemRegistry"})
    ELSE LET members == groupMembers(m.itemName, m.subItems)
         IN  ReturnList([n \in DOMAIN members |-> build(members[n])], {"itemRegistry"})

\* ...\s+received\s+update(?:\s+(?P<state>'[^']+'|\S+))*$
ItemStateUpdateTrigger_match(target) ==
    With(ItemPrefix_match(split(target), <<<<"r","e","c","e","i","v","e","d">>, <<"u","p","d","a","t","e">>>>), LAMBDA m :
        IF m = NoMatch THEN NoMatch
        ELSE With(StateTail(target, WordEnd(target, m.words), PyNone), LAMBDA state :
            IF state = NoMatch THEN NoMatch
            ELSE [subItems |-> m.subItems, itemName |-> m.itemName, state |-> state]))

ItemStateUpdateTrigger_parse(target) ==
    With(ItemStateUpdateTrigger_match(target), LAMBDA match :
        IF match = NoMatch THEN Declined
        ELSE ItemTriggers(match, LAMBDA name : ItemStateUpdateTrigger(name, match.state)))

\* ...\s+changed(?:\s+from\s+(?P<previousState>'[^']+'|\S+))*(?:\s+to\s+(?P<state>'[^']+'|\S+))*$
ItemStateChangeTrigger_match(target) ==
    With(ItemPrefix_match(split(target), <<<<"c","h","a","n","g","e","d">>>>), LAMBDA m :
        IF m = NoMatch THEN NoMatch
        ELSE With(FromTail(target, WordEnd(target, m.words), PyNone), LAMBDA tail :
            IF tail = NoMatch THEN NoMatch
            ELSE [subItems |-> m.subItems, itemName |-> m.itemName,
                  previousState |-> tail.previousState, state |-> tail.state]))

ItemStateChangeTrigger_parse(target) ==
    With(ItemStateChangeTrigger_match(target), LAMBDA match :
        IF match = NoMatch THEN Declined
        ELSE ItemTriggers(match, LAMBDA name :
                 ItemStateChangeTrigger(name, match.previousState, match.state)))

\* ...\s+received\s+command(?:\s+(?P<command>\w+))*$
ItemCommandTrigger_match(target) ==
    With(split(target), LAMBDA w :
    With(ItemPrefix_match(w, <<<<"r","e","c","e","i","v","e","d">>, <<"c","o","m","m","a","n","d">>>>), LAMBDA m :
        IF m = NoMatch THEN NoMatch
        ELSE With(WordTail(w, m.words + 1), LAMBDA command :
            IF command = NoMatch THEN NoMatch
            ELSE [subItems |-> m.subItems, itemName |-> m.itemName, command |-> command])))

ItemCommandTrigger_parse(target) ==
    With(ItemCommandTrigger_match(target), LAMBDA match :
        IF match = NoMatch THEN Declined
        ELSE ItemTriggers(match, LAMBDA name : ItemCommandTrigger(name, match.command)))
\* ------------------------------------------------------------ thing and channel triggers

ThingStatusUpdateTrigger(thing_uid, status) ==
    Descriptor("core.ThingStatusUpdateTrigger",
               {Entry("thingUID", PyStr(thing_uid))} \cup Optional("status", status))

\* ^Thing\s+(?P<thingUID>\S+)\s+received\s+update(?:\s+(?P<status>\w+))*$
ThingStatusUpdateTrigger_match(target) ==
    LET w == split(target)
    IN  IF /\ Len(w) >= 4 /\ EqIC(w[1], <<"t","h","i","n","g">>)
           /\ EqIC(w[3], <<"r","e","c","e","i","v","e","d">>) /\ EqIC(w[4], <<"u","p","d","a","t","e">>)
           /\ WordTail(w, 5) # NoMatch
        THEN [thingUID |-> w[2], status |-> WordTail(w, 5)]
        ELSE NoMatch

ThingStatusUpdateTrigger_parse(target) ==
    LET match == ThingStatusUpdateTrigger_match(target)
    IN  IF match = NoMatch THEN Declined
        ELSE IF getThing(match.thingUID) = PyNone THEN Raise("ValueError", InvalidThingUID, {"things"})
        ELSE ReturnOne(ThingStatusUpdateTrigger(match.thingUID, match.status), {"things"})

ThingStatusChangeTrigger(thing_uid, previous_status, status) ==
    Descriptor("core.ThingStatusChangeTrigger",
               {Entry("thingUID", PyStr(thing_uid))}
                   \cup Optional("previousStatus", previous_status) \cup Optional("status", status))

\* (?:\s+kw\s+(?P<g>\w+))* over the words from the k-th on: the number of
\* iterations the matcher can take, most first
RECURSIVE ClauseCount(_, _, _)
ClauseCount(w, k, kw) ==
    IF k + 1 <= Len(w) /\ EqIC(w[k], kw) /\ AllOf(w[k + 1], IsWordChar)
    THEN 1 + ClauseCount(w, k + 2, kw)
    ELSE 0

\* (?:\s+from\s+(?P<previousState>\w+))*(?:\s+to\s+(?P<state>\w+))*$ over the
\* words from the k-th on: the matcher takes as many from clauses as lead to a
\* match, then to clauses to the end
ThingChangeTail(w, k) ==
    LET ok == {f \in 0..ClauseCount(w, k, <<"f","r","o","m">>) :
                  k + 2 * f + 2 * ClauseCount(w, k + 2 * f, <<"t","o">>) = Len(w) + 1}
        f == CHOOSE f \in ok : \A g \in ok : g <= f
        t == ClauseCount(w, k + 2 * f, <<"t","o">>)
    IN  IF ok = {} THEN NoMatch
        ELSE [previousState |-> IF f = 0 THEN PyNone ELSE PyStr(w[k + 2 * f - 1]),
              state |-> IF t = 0 THEN PyNone ELSE PyStr(w[Len(w)])]

\* ^Thing\s+(?P<thingUID>\S+)\s+changed(?:\s+from\s+(?P<previousState>\w+))*(?:\s+to\s+(?P<state>\w+))*$
ThingStatusChangeTrigger_match(target) ==
    With(split(target), LAMBDA w :
    With(ThingChangeTail(w, 4), LAMBDA tail :
        IF /\ Len(w) >= 3 /\ EqIC(w[1], <<"t","h","i","n","g">>) /\ EqIC(w[3], <<"c","h","a","n","g","e","d">>)
           /\ tail # NoMatch
        THEN [thingUID |-> w[2], previousState |-> tail.previousState, state |-> tail.state]
        ELSE NoMatch))

ThingStatusChangeTrigger_parse(target) ==
    With(ThingStatusChangeTrigger_match(target), LAMBDA match :
        IF match = NoMatch THEN Declined
        ELSE IF getThing(match.thingUID) = PyNone THEN Raise("ValueError", InvalidThingUID, {"things"})
        ELSE ReturnOne(ThingStatusChangeTrigger(match.thingUID, match.previousState, match.state),
                       {"things"}))

ChannelEventTrigger(channel_uid, event) ==
    Descriptor("core.ChannelEventTrigger",
               {Entry("channelUID", PyStr(channel_uid))} \cup Optional("event", event))

\* \"*(?P<channelUID>\S+)\"* on one word: the leading quotes go to the first
\* star as long as one character is left for the group, which then takes the
\* rest of the word, its trailing quotes included
RECURSIVE QuoteRunEnd(_, _)
QuoteRunEnd(s, i) == IF i <= Len(s) /\ s[i] = "\"" THEN QuoteRunEnd(s, i + 1) ELSE i

channelUIDOf(word) ==
    LET q == QuoteRunEnd(word, 1)
    IN  IF q <= Len(word) THEN Slice(word, q, Len(word) + 1) ELSE <<"\"">>

\* ^Channel\s+\"*(?P<channelUID>\S+)\"*\s+triggered(?:\s+(?P<event>\w+))*$
ChannelEventTrigger_match(target) ==
    LET w == split(target)
    IN  IF /\ Len(w) >= 3 /\ EqIC(w[1], <<"c","h","a","n","n","e","l">>) /\ EqIC(w[3], <<"t","r","i","g","g","e","r","e","d">>)
           /\ WordTail(w, 4) # NoMatch
        THEN [channelUID |-> channelUIDOf(w[2]), event |-> WordTail(w, 4)]
        ELSE NoMatch

ChannelEventTrigger_parse(target) ==
    LET match == ChannelEventTrigger_match(target)
    IN  IF match = NoMatch THEN Declined
        ELSE IF getChannel(match.channelUID) = PyNone
        THEN Raise("ValueError", InvalidChannelUID, {"things"})
        ELSE ReturnOne(ChannelEventTrigger(match.channelUID, match.event), {"things"})

\* ------------------------------------------------------------ item and thing events

\* dict.get: the value of the key as written, or None
ItemEventNames(action) ==
    IF action = <<"a","d","d","e","d">> THEN PyStr(<<"I","t","e","m","A","d","d","e","d","E","v","e","n","t">>)
    ELSE IF action = <<"r","e","m","o","v","e","d">> THEN PyStr(<<"I","t","e","m","R","e","m","o","v","e","d","E","v","e","n","t">>)
    ELSE IF action = <<"u","p","d","a","t","e","d">> THEN PyStr(<<"I","t","e","m","U","p","d","a","t","e","d","E","v","e","n","t">>)
    ELSE PyNone

ThingEventNames(action) ==
    IF action = <<"a","d","d","e","d">> THEN PyStr(<<"T","h","i","n","g","A","d","d","e","d","E","v","e","n","t">>)
    ELSE IF action = <<"r","e","m","o","v","e","d">> THEN PyStr(<<"T","h","i","n","g","R","e","m","o","v","e","d","E","v","e","n","t">>)
    ELSE IF action = <<"u","p","d","a","t","e","d">> THEN PyStr(<<"T","h","i","n","g","U","p","d","a","t","e","d","E","v","e","n","t">>)
    ELSE PyNone

ItemEventTrigger(event_types) ==
    Descriptor("core.GenericEventTrigger",
               {Entry("eventTopic", PyStr(<<"s","m","a","r","t","h","o","m","e","/","i","t","e","m","s","/","*">>)),
                Entry("eventSource", PyStr(<<"s","m","a","r","t","h","o","m","e","/","i","t","e","m","s","/">>)),
                Entry("eventTypes", event_types)})

ThingEventTrigger(event_types) ==
    Descriptor("core.GenericEventTrigger",
               {Entry("eventTopic", PyStr(<<"s","m","a","r","t","h","o","m","e","/","t","h","i","n","g","s","/","*">>)),
                Entry("eventSource", PyStr(<<"s","m","a","r","t","h","o","m","e","/","t","h","i","n","g","s","/">>)),
                Entry("eventTypes", event_types)})

IsEventAction(word) == EqIC(word, <<"a","d","d","e","d">>) \/ EqIC(word, <<"r","e","m","o","v","e","d">>) \/ EqIC(word, <<"u","p","d","a","t","e","d">>)

\* ^Item\s+(?P<action>added|removed|updated)$
ItemEventTrigger_parse(target) ==
    LET w == split(target)
    IN  IF Len(w) = 2 /\ EqIC(w[1], <<"i","t","e","m">>) /\ IsEventAction(w[2])
        THEN ReturnOne(ItemEventTrigger(ItemEventNames(w[2])), {})
        ELSE Declined

\* ^Thing\s+(?P<action>added|removed|updated)$
ThingEventTrigger_parse(target) ==
    LET w == split(target)
    IN  IF Len(w) = 2 /\ EqIC(w[1], <<"t","h","i","n","g">>) /\ IsEventAction(w[2])
        THEN ReturnOne(ThingEventTrigger(ThingEventNames(w[2])), {})
        ELSE Declined

\* ------------------------------------------------------------ DirectoryEventTrigger

DirectoryEventTrigger(path, event_kinds, watch_subdirectories) ==
    Descriptor("jsr223.DirectoryEventTrigger",
               {Entry("path", PyStr(path)),
                Entry("event_kinds", PyStr(event_kinds)),
                Entry("watch_subdirectories", PyBool(watch_subdirectories))})

OptionWords == <<<<"c","r","e","a","t","e","d">>, <<"d","e","l","e","t","e","d">>, <<"m","o","d","i","f","i","e","d">>>>

\* (?:,\s*)* at position i: the exclusive end
RECURSIVE CommaRunEnd(_, _)
CommaRunEnd(o, i) ==
    IF i <= Len(o) /\ o[i] = "," THEN CommaRunEnd(o, SpaceRunEnd(o, i + 1)) ELSE i

\* (?:(?:,\s*)*(?:created|deleted|modified))+ over the whole of o from i
RECURSIVE OptionsMatch(_, _)
OptionsMatch(o, i) ==
    LET j == CommaRunEnd(o, i)
        kws == {n \in DOMAIN OptionWords : LiteralAt(o, j, OptionWords[n])}
        e == j + Len(OptionWords[CHOOSE n \in kws : TRUE])
    IN  /\ kws # {}
        /\ (e > Len(o) \/ OptionsMatch(o, e))

\* ^(?P<dirOrSub>Directory|Subdirectory)\s+(?P<path>'.+'|\S+)\s+\[(?P<options>...)\]$
\* The opening bracket is the last one of the phrase (the options hold none),
\* the path ends at the last non-space before it.
DirectoryEventTrigger_match(target) ==
    LET w == split(target)
        brackets == {i \in DOMAIN target : target[i] = "["}
        b == CHOOSE i \in brackets : \A j \in brackets : j <= i
        ps == WordStart(target, 2)
        before == {i \in ps..(b - 1) : ~IsSpace(target[i])}
        pe == 1 + CHOOSE i \in before : \A j \in before : j <= i
        path == Slice(target, ps, pe)
        options == Slice(target, b + 1, Len(target))
    IN  IF /\ Len(w) >= 2
           /\ (EqIC(w[1], <<"d","i","r","e","c","t","o","r","y">>) \/ EqIC(w[1], <<"s","u","b","d","i","r","e","c","t","o","r","y">>))
           /\ target[Len(target)] = "]"
           /\ brackets # {}
           /\ before # {}
           /\ pe < b
           /\ \/ Len(path) >= 3 /\ path[1] = "'" /\ path[Len(path)] = "'"
              \/ AllOf(path, LAMBDA c : ~IsSpace(c))
           /\ options # <<>>
           /\ OptionsMatch(options, 1)
        THEN [dirOrSub |-> w[1], path |-> path, options |-> options]
        ELSE NoMatch

DirectoryEventTrigger_parse(target) ==
    With(DirectoryEventTrigger_match(target), LAMBDA match :
        IF match = NoMatch THEN Declined
        ELSE With(split(match.options), LAMBDA options :
             With((IF \E n \in DOMAIN options : options[n] = <<"c","r","e","a","t","e","d">>
                   THEN <<"ENTRY_CREATE">> ELSE <<>>)
                      \o (IF \E n \in DOMAIN options : options[n] = <<"d","e","l","e","t","e","d">>
                          THEN <<"ENTRY_DELETE">> ELSE <<>>)
                      \o (IF \E n \in DOMAIN options : options[n] = <<"m","o","d","i","f","i","e","d">>
                          THEN <<"ENTRY_MODIFY">> ELSE <<>>), LAMBDA event_kinds :
                 ReturnOne(DirectoryEventTrigger(
                               match.path,
                               IF event_kinds = <<>>
                               THEN <<"ENTRY_CREATE", "ENTRY_DELETE", "ENTRY_MODIFY">>
                               ELSE event_kinds,
                               match.dirOrSub = <<"S","u","b","d","i","r","e","c","t","o","r","y">>), {}))))

\* ------------------------------------------------------------ when

\* The firstWord attribute of a class is a str or a list of str, and
\* `firstWord.lower() in cls.firstWord` is the substring test on a str and
\* the membership test on a list.
FirstWordStr(s) == [isList |-> FALSE, words |-> <<s>>]
FirstWordList(l) == [isList |-> TRUE, words |-> l]

PyIn(x, firstWord) ==
    IF firstWord.isList
    THEN \E n \in DOMAIN firstWord.words : firstWord.words[n] = x
    ELSE IsSubstring(x, firstWord.words[1])

ItemFirstWords == FirstWordList(<<<<"i","t","e","m">>, <<"m","e","m","b","e","r">>, <<"d","e","s","c","e","n","d","e","n","t">>>>)

\* triggerClasses, in the order of the list, each with its firstWord
triggerClasses ==
    << [name |-> "StartupTrigger", firstWord |-> FirstWordStr(<<"s","y","s","t","e","m">>)],
       [name |-> "CronTrigger", firstWord |-> FirstWordStr(<<"t","i","m","e">>)],
       [name |-> "DateTimeTrigger", firstWord |-> FirstWordStr(<<"t","i","m","e">>)],
       [name |-> "ItemStateUpdateTrigger", firstWord |-> ItemFirstWords],
       [name |-> "ItemStateChangeTrigger", firstWord |-> ItemFirstWords],
       [name |-> "ChannelEventTrigger", firstWord |-> FirstWordStr(<<"c","h","a","n","n","e","l">>)],
       [name |-> "ItemEventTrigger", firstWord |-> FirstWordStr(<<"i","t","e","m">>)],
       [name |-> "ItemCommandTrigger", firstWord |-> ItemFirstWords],
       [name |-> "ThingStatusUpdateTrigger", firstWord |-> FirstWordStr(<<"t","h","i","n","g">>)],
       [name |-> "ThingStatusChangeTrigger", firstWord |-> FirstWordStr(<<"t","h","i","n","g">>)],
       [name |-> "ThingEventTrigger", firstWord |-> FirstWordStr(<<"t","h","i","n","g">>)],
       [name |-> "DirectoryEventTrigger",
        firstWord |-> FirstWordList(<<<<"d","i","r","e","c","t","o","r","y">>, <<"s","u","b","d","i","r","e","c","t","o","r","y">>>>)] >>

\* triggerClass.parse(target)
triggerClass_parse(name, target) ==
    CASE name = "StartupTrigger" -> StartupTrigger_parse(target)
      [] name = "CronTrigger" -> CronTrigger_parse(target)
      [] name = "DateTimeTrigger" -> DateTimeTrigger_parse(target)
      [] name = "ItemStateUpdateTrigger" -> ItemStateUpdateTrigger_parse(target)
      [] name = "ItemStateChangeTrigger" -> ItemStateChangeTrigger_parse(target)
      [] name = "ChannelEventTrigger" -> ChannelEventTrigger_parse(target)
      [] name = "ItemEventTrigger" -> ItemEventTrigger_parse(target)
      [] name = "ItemCommandTrigger" -> ItemCommandTrigger_parse(target)
      [] name = "ThingStatusUpdateTrigger" -> ThingStatusUpdateTrigger_parse(target)
      [] name = "ThingStatusChangeTrigger" -> ThingStatusChangeTrigger_parse(target)
      [] name = "ThingEventTrigger" -> ThingEventTrigger_parse(target)
      [] name = "DirectoryEventTrigger" -> DirectoryEventTrigger_parse(target)

\* The for loop of a parse orchestrator from the n-th class on: the outcome,
\* with `tried` the classes whose parse classmethod was called, in order.
\* A class that returns None lets the loop go on; one that returns a value or
\* raises ends it; the loop running out raises "Could not parse".
RECURSIVE ParseLoop(_, _, _, _, _, _)
ParseLoop(classes, classParse(_, _), target, firstWord, n, tried) ==
    IF n > Len(classes)
    THEN [out |-> Raise("ValueError", CouldNotParse, {}), tried |-> tried]
    ELSE IF ~PyIn(lower(firstWord), classes[n].firstWord)
    THEN ParseLoop(classes, classParse, target, firstWord, n + 1, tried)
    ELSE LET r == classParse(classes[n].name, target)
             rest == ParseLoop(classes, classParse, target, firstWord, n + 1,
                               Append(tried, classes[n].name))
         IN  IF r.kind = "none"
             THEN [out |-> [rest.out EXCEPT !.lookups = r.lookups \cup @], tried |-> rest.tried]
             ELSE [out |-> r, tried |-> Append(tried, classes[n].name)]

\* parse(target) of when: no check of an empty phrase before split()[0]
when_parse(phrase) ==
    LET target == strip(phrase)
    IN  IF split(target) = <<>>
        THEN [out |-> Raise("IndexError", "list index out of range", {}), tried |-> <<>>]
        ELSE ParseLoop(triggerClasses, triggerClass_parse, target, split(target)[1], 1, <<>>)

\* ------------------------------------------------------------ ItemStateCondition

\* ('[^']+'|\S+)*$ from position i, the iterations following each other with
\* nothing between: the last capture of the group, or NoMatch.  The matcher
\* tries the quoted alternative, then \S+ from its longest match down.
RECURSIVE StateStar(_, _, _)
StateStar(s, i, last) ==
    IF i > Len(s) THEN last
    ELSE LET q == QuotedEnd(s, i)
             m == NonSpaceRunEnd(s, i)
             ends == (IF q # 0 THEN <<q>> ELSE <<>>) \o [k \in 1..(m - i) |-> m - k + 1]
             try(n) == StateStar(s, ends[n], PyStr(Slice(s, i, ends[n])))
             ok == {n \in DOMAIN ends : try(n) # NoMatch}
         IN  IF ok # {} THEN try(CHOOSE n \in ok : \A k \in ok : n <= k) ELSE NoMatch

\* the alternatives of the operator groups, in the order of the pattern
OperatorSpellings ==
    << [group |-> "eq", lits |-> <<<<"=">>>>],
       [group |-> "eq", lits |-> <<<<"=","=">>>>],
       [group |-> "eq", lits |-> <<<<"e","q">>>>],
       [group |-> "eq", lits |-> <<<<"e","q","u","a","l","s">>>>],
       [group |-> "eq", lits |-> <<<<"i","s">>>>],
       [group |-> "neq", lits |-> <<<<"!","=">>>>],
       [group |-> "neq", lits |-> <<<<"n","o","t">>, <<"e","q","u","a","l","s">>>>],
       [group |-> "neq", lits |-> <<<<"i","s">>, <<"n","o","t">>>>],
       [group |-> "lt", lits |-> <<<<"<">>>>],
       [group |-> "lt", lits |-> <<<<"l","t">>>>],
       [group |-> "lt", lits |-> <<<<"i","s">>, <<"l","e","s","s">>, <<"t","h","a","n">>>>],
       [group |-> "lte", lits |-> <<<<"<","=">>>>],
       [group |-> "lte", lits |-> <<<<"l","t","e">>>>],
       [group |-> "lte", lits |-> <<<<"i","s">>, <<"l","e","s","s">>, <<"t","h","a","n">>, <<"o","r">>, <<"e","q","u","a","l">>>>],
       [group |-> "gt", lits |-> <<<<">">>>>],
       [group |-> "gt", lits |-> <<<<"g","t">>>>],
       [group |-> "gt", lits |-> <<<<"i","s">>, <<"g","r","e","a","t","e","r">>, <<"t","h","a","n">>>>],
       [group |-> "gte", lits |-> <<<<">","=">>>>],
       [group |-> "gte", lits |-> <<<<"g","t","e">>>>],
       [group |-> "gte", lits |-> <<<<"i","s">>, <<"g","r","e","a","t","e","r">>, <<"t","h","a","n">>, <<"o","r">>, <<"e","q","u","a","l">>>>] >>

\* the literals lits[n], lits[n+1], ... separated by \s+, at position i: the
\* exclusive end, or 0
RECURSIVE LiteralsEnd(_, _, _, _)
LiteralsEnd(s, i, lits, n) ==
    IF ~LiteralAt(s, i, lits[n]) THEN 0
    ELSE LET e == i + Len(lits[n])
             c == SpaceRunEnd(s, e)
         IN  IF n = Len(lits) THEN e
             ELSE IF c > e THEN LiteralsEnd(s, c, lits, n + 1)
             ELSE 0

\* ^Item\s+(?P<itemName>\w+)\s+((?P<eq>...)|(?P<neq>...)|...)\s+(?P<state>'[^']+'|\S+)*$
\* The first alternative after which \s+ and the states reach the end of the
\* phrase gives the operator group.
ItemStateCondition_match(target) ==
    LET w == split(target)
        i == WordStart(target, 3)
        stateOf(n) ==
            With(LiteralsEnd(target, i, OperatorSpellings[n].lits, 1), LAMBDA e :
            With(SpaceRunEnd(target, e), LAMBDA c :
                IF e # 0 /\ c > e THEN StateStar(target, c, PyNone) ELSE NoMatch))
    IN  With([n \in DOMAIN OperatorSpellings |-> stateOf(n)], LAMBDA states :
        With({n \in DOMAIN states : states[n] # NoMatch}, LAMBDA ok :
            IF /\ Len(w) >= 3 /\ EqIC(w[1], <<"i","t","e","m">>) /\ AllOf(w[2], IsWordChar)
               /\ ok # {}
            THEN With(CHOOSE n \in ok : \A k \in ok : n <= k, LAMBDA first :
                     [itemName |-> w[2], group |-> OperatorSpellings[first].group,
                      state |-> states[first]])
            ELSE NoMatch))

\* operators, and next(...) over the groups that took part in the match
operators ==
    << <<"eq", <<"=">>>>, <<"neq", <<"!","=">>>>, <<"lt", <<"<">>>>,
       <<"lte", <<"<","=">>>>, <<"gt", <<">">>>>, <<"gte", <<">","=">>>> >>

\* conditionOf with the slip of taking the first entry of operators whatever
\* group took part in the match
conditionOf_firstEntry(group) ==
    PyStr(operators[1][2])

conditionOf(group) ==
    LET set == {n \in DOMAIN operators : operators[n][1] = group}
    IN  IF set = {} THEN PyNone
        ELSE PyStr(operators[CHOOSE n \in set : \A k \in set : n <= k][2])

ItemStateCondition_init(item_name, operator, state) ==
    IF operator = PyNone \/ state = PyNone
    THEN Raise("ValueError", ParameterInvalid, {"itemRegistry"})
    ELSE ReturnOne(Descriptor("core.ItemStateCondition",
                              {Entry("itemName", PyStr(item_name)),
                               Entry("operator", operator),
                               Entry("state", state)}), {"itemRegistry"})

ItemStateCondition_parse(target) ==
    With(ItemStateCondition_match(target), LAMBDA match :
        IF match = NoMatch THEN Declined
        ELSE IF getItem(match.itemName) = PyNone
        THEN Raise("ValueError", InvalidItemName, {"itemRegistry"})
        ELSE ItemStateCondition_init(match.itemName, conditionOf(match.group), match.state))

\* ------------------------------------------------------------ EphemerisCondition

EphemerisTypeUID(dayset) ==
    IF dayset = <<"h","o","l","i","d","a","y">> THEN "ephemeris.HolidayCondition"
    ELSE IF dayset = <<"n","o","t","h","o","l","i","d","a","y">> THEN "ephemeris.NotHolidayCondition"
    ELSE IF dayset = <<"w","e","e","k","e","n","d">> THEN "ephemeris.WeekendCondition"
    ELSE IF dayset = <<"w","e","e","k","d","a","y">> THEN "ephemeris.WeekdayCondition"
    ELSE "None"

EphemerisCondition(dayset, offset) ==
    IF EphemerisTypeUID(dayset) = "None"
    THEN Descriptor("epemeris.DaysetCondition",
                    {Entry("offset", offset), Entry("dayset", PyStr(dayset))})
    ELSE Descriptor(EphemerisTypeUID(dayset), {Entry("offset", offset)})

\* it'*s
IsIts(word) ==
    /\ Len(word) >= 3
    /\ EqIC(SubSeq(word, 1, 2), <<"i","t">>)
    /\ EqIC(<<word[Len(word)]>>, <<"s">>)
    /\ \A i \in 3..(Len(word) - 1) : word[i] = "'"

\* -?\d+
IsOffset(word) ==
    LET digits == IF word[1] = "-" THEN Tail(word) ELSE word
    IN  digits # <<>> /\ AllOf(digits, IsDigit)

WordsAre(w, kws) == Len(w) >= Len(kws) /\ \A n \in DOMAIN kws : EqIC(w[n], kws[n])

\* the alternatives of the day part, in the order of the pattern: does the
\* n-th match the first words of w, with the number of words it takes and the
\* groups today, plus1, minus1 and offset
DayAlternative(w, n) ==
    LET alt(matched, words, group, offset) ==
            [matched |-> matched, words |-> words, group |-> group, offset |-> offset]
    IN  CASE n = 1 -> alt(WordsAre(w, <<<<"t","o","d","a","y">>, <<"i","s">>>>), 2, "today", PyNone)
          [] n = 2 -> alt(Len(w) >= 1 /\ IsIts(w[1]), 1, "today", PyNone)
          [] n = 3 -> alt(WordsAre(w, <<<<"t","o","m","o","r","r","o","w">>, <<"i","s">>>>), 2, "plus1", PyNone)
          [] n = 4 -> alt(WordsAre(w, <<<<"t","o","d","a","y">>, <<"p","l","u","s">>, <<"1">>>>), 3, "plus1", PyNone)
          [] n = 5 -> alt(WordsAre(w, <<<<"y","e","s","t","e","r","d","a","y">>, <<"w","a","s">>>>), 2, "minus1", PyNone)
          [] n = 6 -> alt(WordsAre(w, <<<<"t","o","d","a","y">>, <<"m","i","n","u","s">>, <<"1">>>>), 3, "minus1", PyNone)
          [] n = 7 -> alt(/\ Len(w) >= 4 /\ EqIC(w[1], <<"t","o","d","a","y">>)
                          /\ (EqIC(w[2], <<"p","l","u","s">>) \/ EqIC(w[2], <<"m","i","n","u","s">>) \/ EqIC(w[2], <<"o","f","f","s","e","t">>))
                          /\ IsOffset(w[3]) /\ EqIC(w[4], <<"i","s">>),
                          4, "offset", IF Len(w) >= 3 THEN PyStr(w[3]) ELSE PyNone)

\* \s+(?P<not>not\s+)?(in\s+)?(a\s+)?(?P<daytype>holiday|weekday|weekend|\S+)$
\* over the words from the k-th on: the last word is the day type, the words
\* before it are not, in and a, each at most once and in this order
Predicate_match(w, k) ==
    LET hasNot == k < Len(w) /\ EqIC(w[k], <<"n","o","t">>)
        k1 == IF hasNot THEN k + 1 ELSE k
        k2 == IF k1 < Len(w) /\ EqIC(w[k1], <<"i","n">>) THEN k1 + 1 ELSE k1
        k3 == IF k2 < Len(w) /\ EqIC(w[k2], <<"a">>) THEN k2 + 1 ELSE k2
    IN  IF k <= Len(w) /\ k3 = Len(w)
        THEN [not |-> IF hasNot THEN PyStr(w[k]) ELSE PyNone, daytype |-> w[Len(w)]]
        ELSE NoMatch

EphemerisCondition_match(target) ==
    With(split(target), LAMBDA w :
    With([n \in 1..7 |-> DayAlternative(w, n)], LAMBDA days :
    With({n \in 1..7 : /\ days[n].matched
                       /\ Predicate_match(w, days[n].words + 1) # NoMatch}, LAMBDA ok :
        IF ok = {} THEN NoMatch
        ELSE With(days[CHOOSE n \in ok : \A k \in ok : n <= k], LAMBDA day :
             With(Predicate_match(w, day.words + 1), LAMBDA pred :
                 [group |-> day.group, offset |-> day.offset,
                  not |-> pred.not, daytype |-> pred.daytype])))))

EphemerisCondition_parse(target) ==
    With(EphemerisCondition_match(target), LAMBDA match :
        LET offset == CASE match.group = "today" -> PyInt(<<"0">>)
                        [] match.group = "plus1" -> PyInt(<<"1">>)
                        [] match.group = "minus1" -> PyInt(<<"-","1">>)
                        [] OTHER -> match.offset
            negatable == match.daytype \in {<<"h","o","l","i","d","a","y">>, <<"w","e","e","k","d","a","y">>, <<"w","e","e","k","e","n","d">>}
            daytype ==
                IF match.not = PyNone THEN match.daytype
                ELSE IF match.daytype = <<"h","o","l","i","d","a","y">> THEN <<"n","o","t","h","o","l","i","d","a","y">>
                ELSE IF match.daytype = <<"w","e","e","k","d","a","y">> THEN <<"w","e","e","k","e","n","d">>
                ELSE <<"w","e","e","k","d","a","y">>
        IN  IF match = NoMatch THEN Declined
            ELSE IF match.not # PyNone /\ ~negatable THEN Raise("ValueError", UnableToNegate, {})
            ELSE ReturnOne(EphemerisCondition(daytype, offset), {}))
\* ------------------------------------------------------------ TimeOfDayCondition

CharIn(s, i, set) == i >= 1 /\ i <= Len(s) /\ s[i] \in set
SetIf(cond, e) == IF cond THEN {e} ELSE {}

\* :[0-5]\d at position i
MinutesAt(s, i) == CharIn(s, i, {":"}) /\ CharIn(s, i + 1, {"0", "1", "2", "3", "4", "5"}) /\ CharIn(s, i + 2, Digits)

\* ([01]?\d|2[0-3]):[0-5]\d at position i: the exclusive ends
Ends24(s, i) ==
    LET hours == SetIf(CharIn(s, i, {"0", "1"}) /\ CharIn(s, i + 1, Digits), i + 2)
                     \cup SetIf(CharIn(s, i, Digits), i + 1)
                     \cup SetIf(CharIn(s, i, {"2"}) /\ CharIn(s, i + 1, {"0", "1", "2", "3"}), i + 2)
    IN  {h + 3 : h \in {h \in hours : MinutesAt(s, h)}}

\* (0?[1-9]|1[0-2]):[0-5]\d(:[0-5]\d)?\s?(AM|PM) at position i: the exclusive ends
Ends12(s, i) ==
    LET nonzero == Digits \ {"0"}
        hours == SetIf(CharIn(s, i, {"0"}) /\ CharIn(s, i + 1, nonzero), i + 2)
                     \cup SetIf(CharIn(s, i, nonzero), i + 1)
                     \cup SetIf(CharIn(s, i, {"1"}) /\ CharIn(s, i + 1, {"0", "1", "2"}), i + 2)
        minutes == {h + 3 : h \in {h \in hours : MinutesAt(s, h)}}
        seconds == minutes \cup {m + 3 : m \in {m \in minutes : MinutesAt(s, m)}}
        space == seconds \cup {e + 1 : e \in {e \in seconds : CharIn(s, e, {" "})}}
    IN  {e + 2 : e \in {e \in space : LiteralAt(s, e, <<"A","M">>) \/ LiteralAt(s, e, <<"P","M">>)}}

\* (?:\s*-\s*|\s+to\s+) at position i: the exclusive ends
SeparatorEnds(s, i) ==
    LET a == SpaceRunEnd(s, i)
        c == SpaceRunEnd(s, a + 2)
    IN  (IF CharIn(s, a, {"-"}) THEN {SpaceRunEnd(s, a + 1)} ELSE {})
            \cup (IF a > i /\ LiteralAt(s, a, <<"t","o">>) /\ c > a + 2 THEN {c} ELSE {})

\* ^Time\s+(?P<startTime>T24|T12)(?:\s*-\s*|\s+to\s+)(?P<endTime>T24|T12)$
\* The start time is the 24-hour reading when that leads to a match.
TimeOfDayCondition_match(target) ==
    LET w == split(target)
        i == WordStart(target, 2)
        endOk(c) == (Len(target) + 1) \in Ends24(target, c) \cup Ends12(target, c)
        leads(e) == \E c \in SeparatorEnds(target, e) : endOk(c)
    IN  With({e \in Ends24(target, i) : leads(e)}, LAMBDA ok24 :
        With({e \in Ends12(target, i) : leads(e)}, LAMBDA ok12 :
            IF Len(w) >= 2 /\ EqIC(w[1], <<"t","i","m","e">>) /\ (ok24 \cup ok12) # {}
            THEN With(IF ok24 # {} THEN CHOOSE e \in ok24 : TRUE ELSE CHOOSE e \in ok12 : TRUE,
                      LAMBDA e1 :
                 With(CHOOSE c \in SeparatorEnds(target, e1) : endOk(c), LAMBDA c1 :
                     [startTime |-> Slice(target, i, e1),
                      endTime |-> Slice(target, c1, Len(target) + 1)]))
            ELSE NoMatch))

TimeOfDayCondition(startTime, endTime) ==
    Descriptor("core.TimeOfDayCondition",
               {Entry("startTime", PyStr(startTime)), Entry("endTime", PyStr(endTime))})

TimeOfDayCondition_parse(target) ==
    With(TimeOfDayCondition_match(target), LAMBDA match :
        IF match = NoMatch THEN Declined
        ELSE ReturnOne(TimeOfDayCondition(match.startTime, match.endTime), {}))

\* ------------------------------------------------------------ onlyif

\* conditionClasses, in the order of the list, each with its firstWord
conditionClasses ==
    << [name |-> "ItemStateCondition", firstWord |-> FirstWordStr(<<"i","t","e","m">>)],
       [name |-> "EphemerisCondition",
        firstWord |-> FirstWordList(<<<<"t","o","d","a","y">>, <<"t","o","m","o","r","r","o","w">>, <<"y","e","s","t","e","r","d","a","y">>, <<"i","t","'","s">>>>)],
       [name |-> "TimeOfDayCondition", firstWord |-> FirstWordStr(<<"t","i","m","e">>)] >>

\* conditionClass.parse(target)
conditionClass_parse(name, target) ==
    CASE name = "ItemStateCondition" -> ItemStateCondition_parse(target)
      [] name = "EphemerisCondition" -> EphemerisCondition_parse(target)
      [] name = "TimeOfDayCondition" -> TimeOfDayCondition_parse(target)

\* parse(target) of onlyif
onlyif_parse(phrase) ==
    LET target == strip(phrase)
    IN  IF Len(target) <= 0
        THEN [out |-> Raise("ValueError", ExpressionIsLength0, {}), tried |-> <<>>]
        ELSE ParseLoop(conditionClasses, conditionClass_parse, target, split(target)[1], 1, <<>>)

\* ------------------------------------------------------------ input phrases

\* A phrase is spelled from a template of tokens: a keyword of a pattern (K),
\* written as the documentation writes it, all lower case or all upper case,
\* and a name or value (N), always written as it is.
K(text) == [keyword |-> TRUE, text |-> text]
N(text) == [keyword |-> FALSE, text |-> text]

LetterCases == {"documented", "lower", "upper"}

Spell(template, case) ==
    JoinWords([n \in DOMAIN template |->
        IF ~template[n].keyword \/ case = "documented" THEN template[n].text
        ELSE IF case = "lower" THEN lower(template[n].text)
        ELSE upper(template[n].text)])

Spellings(templates) == {Spell(t, c) : t \in templates, c \in LetterCases}

\* the same phrase with surrounding and doubled whitespace
Padded(p) == <<" ">> \o p \o <<" ", " ">>

EmptyPhrases == {<<>>, <<" ">>, <<" ", " ", " ">>}

ItemSubjects ==
    {<<K(<<"I","t","e","m">>), N(name)>> : name \in {<<"A">>, <<"G">>, <<"N","o","p","e">>}}
        \cup {<<K(q), K(<<"o","f">>), N(name)>> :
                  q \in {<<"M","e","m","b","e","r">>, <<"D","e","s","c","e","n","d","e","n","t">>}, name \in {<<"A">>, <<"G">>, <<"H">>, <<"N","o","p","e">>}}

ItemVerbs ==
    { <<K(<<"c","h","a","n","g","e","d">>)>>,
      <<K(<<"c","h","a","n","g","e","d">>), K(<<"f","r","o","m">>), N(<<"O","N">>), K(<<"t","o">>), N(<<"O","F","F">>)>>,
      <<K(<<"r","e","c","e","i","v","e","d">>), K(<<"u","p","d","a","t","e">>)>>,
      <<K(<<"r","e","c","e","i","v","e","d">>), K(<<"u","p","d","a","t","e">>), N(<<"O","N">>)>>,
      <<K(<<"r","e","c","e","i","v","e","d">>), K(<<"c","o","m","m","a","n","d">>), N(<<"O","F","F">>)>> }

TriggerTemplates ==
    { <<K(<<"S","y","s","t","e","m">>), K(<<"s","t","a","r","t","e","d">>)>>,
      <<K(<<"S","y","s","t","e","m">>), K(<<"r","e","a","c","h","e","d">>), K(<<"s","t","a","r","t">>), K(<<"l","e","v","e","l">>), N(<<"5","0">>)>>,
      <<K(<<"S","y","s","t","e","m">>), K(<<"s","h","u","t","s">>), K(<<"d","o","w","n">>)>>,
      <<K(<<"T","i","m","e">>), K(<<"c","r","o","n">>), N(<<"0"," ","0"," ","*"," ","*"," ","*"," ","?">>)>>,
      <<K(<<"T","i","m","e">>), K(<<"c","r","o","n">>), N(<<"5","5"," ","5","5"," ","5"," ","*"," ","*"," ","?"," ","2","0","3","0">>)>>,
      <<K(<<"T","i","m","e">>), K(<<"c","r","o","n">>), N(<<"@","d","a","i","l","y">>)>>,
      <<K(<<"T","i","m","e">>), K(<<"c","r","o","n">>), N(<<"n","o","t","-","a","-","c","r","o","n">>)>>,
      <<K(<<"T","i","m","e">>), K(<<"c","r","o","n">>), N(<<"0"," ","0"," ","*"," ","*">>)>>,
      <<K(<<"T","i","m","e">>), K(<<"c","r","o","n">>)>>,
      <<K(<<"T","i","m","e">>), K(<<"i","s">>), K(<<"m","i","d","n","i","g","h","t">>)>>,
      <<K(<<"T","i","m","e">>), K(<<"i","s">>), K(<<"n","o","o","n">>)>>,
      <<K(<<"T","i","m","e">>), N(<<"0"," ","0"," ","*"," ","*"," ","*"," ","?">>)>>,
      <<K(<<"T","i","m","e">>), K(<<"i","s">>), N(<<"C","l","o","c","k">>)>>,
      <<K(<<"T","i","m","e">>), K(<<"i","s">>), N(<<"C","l","o","c","k">>), K(<<"[","t","i","m","e","O","n","l","y","]">>)>>,
      <<K(<<"T","i","m","e">>), K(<<"i","s">>), N(<<"N","o","p","e">>)>>,
      <<K(<<"I","t","e","m">>), K(<<"a","d","d","e","d">>)>>,
      <<K(<<"I","t","e","m">>), K(<<"r","e","m","o","v","e","d">>)>>,
      <<K(<<"I","t","e","m">>), K(<<"u","p","d","a","t","e","d">>)>>,
      <<K(<<"I","t","e","m">>), N(<<"A">>), K(<<"c","h","a","n","g","e","d">>), K(<<"t","o">>), N(<<"'","a"," ","b","'">>)>>,
      <<K(<<"I","t","e","m">>), N(<<"A">>), K(<<"c","h","a","n","g","e","d">>), K(<<"t","o">>), N(<<"O","N">>), K(<<"f","r","o","m">>), N(<<"O","F","F">>)>>,
      <<K(<<"I","t","e","m">>), N(<<"A">>), K(<<"r","e","c","e","i","v","e","d">>), K(<<"u","p","d","a","t","e">>), N(<<"'","a"," ","b","'","c">>)>>,
      <<K(<<"I","t","e","m">>), N(<<"A">>), K(<<"r","e","c","e","i","v","e","d">>), K(<<"c","o","m","m","a","n","d">>), N(<<"'","a","'">>)>>,
      <<K(<<"I","t","e","m">>), N(<<"A">>), K(<<"v","a","n","i","s","h","e","d">>)>>,
      <<K(<<"T","h","i","n","g">>), K(<<"a","d","d","e","d">>)>>,
      <<K(<<"T","h","i","n","g">>), K(<<"r","e","m","o","v","e","d">>)>>,
      <<K(<<"T","h","i","n","g">>), K(<<"u","p","d","a","t","e","d">>)>>,
      <<K(<<"T","h","i","n","g">>), N(<<"h","u","e",":","b",":","1">>), K(<<"r","e","c","e","i","v","e","d">>), K(<<"u","p","d","a","t","e">>)>>,
      <<K(<<"T","h","i","n","g">>), N(<<"h","u","e",":","b",":","1">>), K(<<"r","e","c","e","i","v","e","d">>), K(<<"u","p","d","a","t","e">>), N(<<"O","N","L","I","N","E">>)>>,
      <<K(<<"T","h","i","n","g">>), N(<<"h","u","e",":","b",":","1">>), K(<<"c","h","a","n","g","e","d">>)>>,
      <<K(<<"T","h","i","n","g">>), N(<<"h","u","e",":","b",":","1">>), K(<<"c","h","a","n","g","e","d">>), K(<<"f","r","o","m">>), N(<<"O","N","L","I","N","E">>), K(<<"t","o">>), N(<<"O","F","F","L","I","N","E">>)>>,
      <<K(<<"T","h","i","n","g">>), N(<<"h","u","e",":","b",":","1">>), K(<<"c","h","a","n","g","e","d">>), K(<<"t","o">>), N(<<"O","N">>), K(<<"f","r","o","m">>), N(<<"O","F","F">>)>>,
      <<K(<<"T","h","i","n","g">>), N(<<"n","o",":","s","u","c","h",":","2">>), K(<<"c","h","a","n","g","e","d">>)>>,
      <<K(<<"T","h","i","n","g">>), N(<<"n","o",":","s","u","c","h",":","2">>), K(<<"r","e","c","e","i","v","e","d">>), K(<<"u","p","d","a","t","e">>)>>,
      <<K(<<"C","h","a","n","n","e","l">>), N(<<"h","u","e",":","b",":","1",":","s","w">>), K(<<"t","r","i","g","g","e","r","e","d">>)>>,
      <<K(<<"C","h","a","n","n","e","l">>), N(<<"\"","h","u","e",":","b",":","1",":","s","w">>), K(<<"t","r","i","g","g","e","r","e","d">>), N(<<"P","R","E","S","S","E","D">>)>>,
      <<K(<<"C","h","a","n","n","e","l">>), N(<<"\"","h","u","e",":","b",":","1",":","s","w","\"">>), K(<<"t","r","i","g","g","e","r","e","d">>)>>,
      <<K(<<"C","h","a","n","n","e","l">>), N(<<"n","o",":","s","u","c","h",":","2",":","c","h">>), K(<<"t","r","i","g","g","e","r","e","d">>)>>,
      <<K(<<"D","i","r","e","c","t","o","r","y">>), N(<<"/","o","p","t">>), K(<<"[","c","r","e","a","t","e","d",","," ","d","e","l","e","t","e","d",","," ","m","o","d","i","f","i","e","d","]">>)>>,
      <<K(<<"D","i","r","e","c","t","o","r","y">>), N(<<"/","o","p","t">>), K(<<"[","c","r","e","a","t","e","d",",","d","e","l","e","t","e","d","]">>)>>,
      <<K(<<"S","u","b","d","i","r","e","c","t","o","r","y">>), N(<<"'","C",":","\\","M","y"," ","S","t","u","f","f","'">>), K(<<"[","c","r","e","a","t","e","d","]">>)>>,
      <<K(<<"S","u","b","d","i","r","e","c","t","o","r","y">>), N(<<"/","o","p","t">>), K(<<"[","m","o","d","i","f","i","e","d"," ",",","c","r","e","a","t","e","d","]">>)>>,
      <<K(<<"D","i","r","e","c","t","o","r","y">>), N(<<"/","o","p","t">>)>>,
      \* first words that are no firstWord of any class, some of them a
      \* fragment of one
      <<N(<<"s","y","s">>), K(<<"s","t","a","r","t","e","d">>)>>,
      <<N(<<"t","i","m">>), N(<<"0"," ","0"," ","*"," ","*"," ","*"," ","?">>)>>,
      <<N(<<"i","m","e">>), K(<<"i","s">>), K(<<"n","o","o","n">>)>>,
      <<N(<<"i","t">>), K(<<"a","d","d","e","d">>)>>,
      <<N(<<"h","i","n","g">>), K(<<"a","d","d","e","d">>)>>,
      <<N(<<"e">>), N(<<"A">>), K(<<"c","h","a","n","g","e","d">>)>>,
      <<N(<<"c","h","a","n">>), N(<<"h","u","e",":","b",":","1",":","s","w">>), K(<<"t","r","i","g","g","e","r","e","d">>)>>,
      <<N(<<"m","e","m">>), K(<<"o","f">>), N(<<"G">>), K(<<"c","h","a","n","g","e","d">>)>>,
      <<N(<<"d","i","r","e","c","t">>), N(<<"/","o","p","t">>), K(<<"[","c","r","e","a","t","e","d","]">>)>>,
      <<N(<<"I","t","e","m","s">>), N(<<"A">>), K(<<"c","h","a","n","g","e","d">>)>>,
      <<N(<<"E","v","e","r","y">>), N(<<"d","a","y">>)>>,
      <<N(<<"0"," ","0"," ","*"," ","*"," ","*"," ","?">>)>> }
        \cup {subject \o verb : subject \in ItemSubjects, verb \in ItemVerbs}

TriggerPhrases ==
    EmptyPhrases
        \cup Spellings(TriggerTemplates)
        \cup {Padded(Spell(t, "documented")) :
                  t \in { <<K(<<"I","t","e","m">>), N(<<"A">>), K(<<"c","h","a","n","g","e","d">>)>>,
                          <<K(<<"T","i","m","e">>), K(<<"c","r","o","n">>), N(<<"0"," ","0"," ","*"," ","*"," ","*"," ","?">>)>>,
                          <<N(<<"E","v","e","r","y">>), N(<<"d","a","y">>)>> }}

\* the operator spellings of the item-state pattern, as templates
OperatorTemplates ==
    {[n \in DOMAIN OperatorSpellings[a].lits |-> K(OperatorSpellings[a].lits[n])] :
         a \in DOMAIN OperatorSpellings}

DayParts ==
    { <<K(<<"T","o","d","a","y">>), K(<<"i","s">>)>>,
      <<K(<<"I","t","'","s">>)>>,
      <<K(<<"T","o","m","o","r","r","o","w">>), K(<<"i","s">>)>>,
      <<K(<<"T","o","d","a","y">>), K(<<"p","l","u","s">>), N(<<"1">>)>>,
      <<K(<<"Y","e","s","t","e","r","d","a","y">>), K(<<"w","a","s">>)>>,
      <<K(<<"T","o","d","a","y">>), K(<<"m","i","n","u","s">>), N(<<"1">>)>>,
      <<K(<<"T","o","d","a","y">>), K(<<"p","l","u","s">>), N(<<"1">>), K(<<"i","s">>)>>,
      <<K(<<"T","o","d","a","y">>), K(<<"p","l","u","s">>), N(<<"3">>), K(<<"i","s">>)>>,
      <<K(<<"T","o","d","a","y">>), K(<<"m","i","n","u","s">>), N(<<"3">>), K(<<"i","s">>)>>,
      <<K(<<"T","o","d","a","y">>), K(<<"o","f","f","s","e","t">>), N(<<"-","3">>), K(<<"i","s">>)>>,
      <<K(<<"T","o","d","a","y">>), K(<<"o","f","f","s","e","t">>), N(<<"2">>), K(<<"i","s">>)>> }

DayPredicates == {<<>>, <<K(<<"a">>)>>, <<K(<<"n","o","t">>), K(<<"a">>)>>, <<K(<<"n","o","t">>), K(<<"i","n">>)>>}

DayTypes == {<<"h","o","l","i","d","a","y">>, <<"w","e","e","k","d","a","y">>, <<"w","e","e","k","e","n","d">>, <<"s","c","h","o","o","l">>}

ConditionTemplates ==
    { <<K(<<"I","t","e","m">>), N(<<"N","o","p","e">>), K(<<"e","q","u","a","l","s">>), N(<<"O","N">>)>>,
      <<K(<<"I","t","e","m">>), N(<<"A">>), K(<<"i","s">>), N(<<"'","a"," ","b","'">>)>>,
      <<K(<<"I","t","e","m">>), N(<<"A">>), K(<<"i","s">>), N(<<"'","a"," ","b","'","c">>)>>,
      <<K(<<"I","t","e","m">>), N(<<"A">>), K(<<"e","q","u","a","l","s">>)>>,
      <<K(<<"I","t","e","m">>), N(<<"A">>), K(<<"r","e","s","e","m","b","l","e","s">>), N(<<"O","N">>)>>,
      <<K(<<"T","o","d","a","y">>), K(<<"i","s">>), K(<<"n","o","t">>)>>,
      <<K(<<"T","o","d","a","y">>), K(<<"i","s">>), K(<<"a">>), K(<<"n","o","t">>), N(<<"s","c","h","o","o","l">>)>>,
      <<K(<<"T","o","d","a","y">>), K(<<"p","l","u","s">>), N(<<"x">>), K(<<"i","s">>), K(<<"h","o","l","i","d","a","y">>)>>,
      <<K(<<"I","t","s">>), K(<<"a">>), K(<<"h","o","l","i","d","a","y">>)>>,
      <<K(<<"T","i","m","e">>), N(<<"9",":","0","0">>), K(<<"t","o">>), N(<<"1","4",":","0","0">>)>>,
      <<K(<<"T","i","m","e">>), N(<<"9",":","0","0","-","2","3",":","5","9">>)>>,
      <<K(<<"T","i","m","e">>), N(<<"9",":","0","0">>), K(<<"A","M">>), N(<<"-">>), N(<<"2",":","3","0",":","1","5">>), K(<<"P","M">>)>>,
      <<K(<<"T","i","m","e">>), N(<<"0","9",":","0","0">>), K(<<"t","o">>), N(<<"1","2",":","0","0">>), K(<<"P","M">>)>>,
      <<K(<<"T","i","m","e">>), N(<<"2","5",":","0","0">>), K(<<"t","o">>), N(<<"1","4",":","0","0">>)>>,
      <<K(<<"T","i","m","e">>), K(<<"i","s">>), K(<<"n","o","o","n">>)>>,
      <<N(<<"t","i","m">>), N(<<"9",":","0","0">>), K(<<"t","o">>), N(<<"1","4",":","0","0">>)>>,
      <<N(<<"i","t">>), N(<<"A">>), K(<<"e","q","u","a","l","s">>), N(<<"O","N">>)>>,
      <<N(<<"S","o","m","e","t","i","m","e","s">>)>> }
        \cup {<<K(<<"I","t","e","m">>), N(<<"A">>)>> \o op \o <<N(<<"O","N">>)>> : op \in OperatorTemplates}
        \cup {day \o pred \o <<K(type)>> :
                  day \in DayParts, pred \in DayPredicates, type \in DayTypes}

ConditionPhrases ==
    EmptyPhrases
        \cup Spellings(ConditionTemplates)
        \cup {Padded(Spell(t, "documented")) :
                  t \in { <<K(<<"I","t","e","m">>), N(<<"A">>), K(<<"e","q","u","a","l","s">>), N(<<"O","N">>)>>,
                          <<K(<<"T","o","d","a","y">>), K(<<"i","s">>), K(<<"a">>), K(<<"h","o","l","i","d","a","y">>)>> }}

\* the phrases of the runs that decorate one callback several times
RuleTriggerPhrases ==
    { <<"I","t","e","m"," ","A"," ","c","h","a","n","g","e","d">>,
      <<"M","e","m","b","e","r"," ","o","f"," ","G"," ","c","h","a","n","g","e","d"," ","f","r","o","m"," ","O","N"," ","t","o"," ","O","F","F">>,
      <<"T","i","m","e"," ","i","s"," ","n","o","o","n">>,
      <<"I","t","e","m"," ","N","o","p","e"," ","c","h","a","n","g","e","d">>,
      <<"T","i","m","e"," ","c","r","o","n"," ","n","o","t","-","a","-","c","r","o","n">>,
      <<"E","v","e","r","y"," ","d","a","y">>,
      <<>> }

RuleConditionPhrases ==
    { <<"T","o","d","a","y"," ","i","s"," ","a"," ","h","o","l","i","d","a","y">>,
      <<"I","t","e","m"," ","A"," ","e","q","u","a","l","s"," ","O","N">>,
      <<"T","o","d","a","y"," ","i","s"," ","n","o","t"," ","a"," ","s","c","h","o","o","l">>,
      <<"I","t","e","m"," ","N","o","p","e"," ","i","s"," ","O","N">>,
      <<"S","o","m","e","t","i","m","e","s">>,
      <<" ">> }

\* ------------------------------------------------------------ the decorated callback

\* how many decorators a run applies to the callback
MaxApplications == 3

VARIABLES
    attrs,       \* the attributes set on the callback: hasattr(function, ...)
    triggers,    \* function.triggers
    conditions,  \* function.conditions
    warnings,    \* the number of calls of LOG.warn / log.warn
    handles,     \* the lazily loaded registry handles that are no longer None
    history,     \* the decorators applied so far: [op, phrase], in order
    last         \* what the last application did, as its caller sees it

\* The lazily loaded module globals of core.triggers under concurrent callers.
VARIABLES
    globals,     \* itemRegistry and things: 0 is None, n the n-th reference obtained
    pc,          \* where each execution context is in getItem / getChannel / getThing
    callee,      \* the function each context is in
    fetched,     \* what scriptExtension.get returned to the context, not yet assigned
    acquired,    \* the number of calls of scriptExtension.get, per name
    used,        \* the references the lookups were made on: <<name, reference>>
    calls        \* the number of calls each context has made

lazyVars == <<globals, pc, callee, fetched, acquired, used, calls>>

vars == <<attrs, triggers, conditions, warnings, handles, history, last,
          globals, pc, callee, fetched, acquired, used, calls>>

\* the execution contexts, and how many lookups each makes
Contexts == {"c1", "c2"}
MaxCalls == 2

\* the global each lookup function loads lazily
LazyNames == {"itemRegistry", "things"}
LazyFunctions == {"getItem", "getChannel", "getThing"}
globalOf(function) == IF function = "getItem" THEN "itemRegistry" ELSE "things"

NoCall ==
    [op |-> "none", phrase |-> <<>>, decorator |-> "", returned |-> FALSE, raised |-> "",
     parse |-> Declined, tried |-> <<>>]

Init ==
    /\ attrs = {}
    /\ triggers = <<>>
    /\ conditions = <<>>
    /\ warnings = 0
    /\ handles = {}
    /\ history = <<>>
    /\ last = NoCall
    /\ globals = [g \in LazyNames |-> 0]
    /\ pc = [c \in Contexts |-> "idle"]
    /\ callee = [c \in Contexts |-> "none"]
    /\ fetched = [c \in Contexts |-> 0]
    /\ acquired = [g \in LazyNames |-> 0]
    /\ used = {}
    /\ calls = [c \in Contexts |-> 0]

\* when(target): the try block only defines whenFunction and returns it, so
\* nothing in it raises and the decorator is always whenFunction; the except
\* clauses, with LOG.warn and bad_trigger, are not entered
when(target) == "whenFunction"

\* onlyif(target), in the same way
onlyif(target) == "onlyifFunction"

\* the handles a parse loaded, per module
Loaded(module, lookups) == {<<module, h>> : h \in lookups}

Called(op, phrase, decorator, returned, r) ==
    [op |-> op, phrase |-> phrase, decorator |-> decorator,
     returned |-> returned, raised |-> IF returned THEN "" ELSE r.out.exc,
     parse |-> r.out, tried |-> r.tried]

\* whenFunction(function): parse runs here, outside every try, so whatever it
\* raises reaches the caller and the callback is neither changed nor returned
whenFunction(phrase) ==
    With(when_parse(phrase), LAMBDA r :
        /\ handles' = handles \cup Loaded("core.triggers", r.out.lookups)
        /\ history' = Append(history, [op |-> "when", phrase |-> phrase])
        /\ UNCHANGED <<conditions, warnings>>
        /\ IF r.out.kind = "raise"
           THEN /\ last' = Called("when", phrase, "whenFunction", FALSE, r)
                /\ UNCHANGED <<attrs, triggers>>
           ELSE /\ last' = Called("when", phrase, "whenFunction", TRUE, r)
                /\ attrs' = attrs \cup {"triggers"}
                /\ triggers' = triggers \o r.out.descs)

\* bad_trigger(function)
bad_trigger(phrase) ==
    /\ attrs' = attrs \cup {"triggers"}
    /\ triggers' = Append(triggers, NoneEntry)
    /\ history' = Append(history, [op |-> "when", phrase |-> phrase])
    /\ last' = Called("when", phrase, "bad_trigger", TRUE, [out |-> Declined, tried |-> <<>>])
    /\ UNCHANGED <<conditions, warnings, handles>>

\* onlyifFunction(function)
onlyifFunction(phrase) ==
    With(onlyif_parse(phrase), LAMBDA r :
        /\ handles' = handles \cup Loaded("core.conditions", r.out.lookups)
        /\ history' = Append(history, [op |-> "onlyif", phrase |-> phrase])
        /\ UNCHANGED <<triggers, warnings>>
        /\ IF r.out.kind = "raise"
           THEN /\ last' = Called("onlyif", phrase, "onlyifFunction", FALSE, r)
                /\ UNCHANGED <<attrs, conditions>>
           ELSE /\ last' = Called("onlyif", phrase, "onlyifFunction", TRUE, r)
                /\ attrs' = attrs \cup {"conditions"}
                /\ conditions' = conditions \o r.out.descs)

\* bad_condition(function)
bad_condition(phrase) ==
    /\ attrs' = attrs \cup {"conditions"}
    /\ conditions' = Append(conditions, NoneEntry)
    /\ history' = Append(history, [op |-> "onlyif", phrase |-> phrase])
    /\ last' = Called("onlyif", phrase, "bad_condition", TRUE, [out |-> Declined, tried |-> <<>>])
    /\ UNCHANGED <<triggers, warnings, handles>>

\* @when(phrase) on the callback
ApplyWhen(phrase) ==
    IF when(phrase) = "whenFunction" THEN whenFunction(phrase) ELSE bad_trigger(phrase)

\* @onlyif(phrase) on the callback
ApplyOnlyif(phrase) ==
    IF onlyif(phrase) = "onlyifFunction" THEN onlyifFunction(phrase) ELSE bad_condition(phrase)

\* A rule definition: up to MaxApplications decorators on one callback.
When ==
    /\ Len(history) < MaxApplications
    /\ \E phrase \in RuleTriggerPhrases : ApplyWhen(phrase)
    /\ UNCHANGED lazyVars

Onlyif ==
    /\ Len(history) < MaxApplications
    /\ \E phrase \in RuleConditionPhrases : ApplyOnlyif(phrase)
    /\ UNCHANGED lazyVars

Next == When \/ Onlyif

Spec == Init /\ [][Next]_vars

\* One decorator on a fresh callback, over all the input phrases.
WhenOnce ==
    /\ history = <<>>
    /\ \E phrase \in TriggerPhrases : ApplyWhen(phrase)
    /\ UNCHANGED lazyVars

OnlyifOnce ==
    /\ history = <<>>
    /\ \E phrase \in ConditionPhrases : ApplyOnlyif(phrase)
    /\ UNCHANGED lazyVars

NextOnce == WhenOnce \/ OnlyifOnce

SpecOnce == Init /\ [][NextOnce]_vars


\* ------------------------------------------------------------ lazy loading

decoratorVars == <<attrs, triggers, conditions, warnings, handles, history, last>>

\* a context calls getItem, getChannel or getThing
LazyCall(c) ==
    /\ pc[c] = "idle"
    /\ calls[c] < MaxCalls
    /\ \E function \in LazyFunctions : callee' = [callee EXCEPT ![c] = function]
    /\ calls' = [calls EXCEPT ![c] = @ + 1]
    /\ pc' = [pc EXCEPT ![c] = "test"]
    /\ UNCHANGED <<globals, fetched, acquired, used>>
    /\ UNCHANGED decoratorVars

\* if itemRegistry is None:
LazyTest(c) ==
    /\ pc[c] = "test"
    /\ pc' = [pc EXCEPT ![c] = IF globals[globalOf(callee[c])] = 0 THEN "get" ELSE "use"]
    /\ UNCHANGED <<globals, callee, fetched, acquired, used, calls>>
    /\ UNCHANGED decoratorVars

\* scriptExtension.get("itemRegistry")
LazyGet(c) ==
    /\ pc[c] = "get"
    /\ acquired' = [acquired EXCEPT ![globalOf(callee[c])] = @ + 1]
    /\ fetched' = [fetched EXCEPT ![c] = acquired'[globalOf(callee[c])]]
    /\ pc' = [pc EXCEPT ![c] = "store"]
    /\ UNCHANGED <<globals, callee, used, calls>>
    /\ UNCHANGED decoratorVars

\* itemRegistry = <what scriptExtension.get returned>
LazyStore(c) ==
    /\ pc[c] = "store"
    /\ globals' = [globals EXCEPT ![globalOf(callee[c])] = fetched[c]]
    /\ pc' = [pc EXCEPT ![c] = "use"]
    /\ UNCHANGED <<callee, fetched, acquired, used, calls>>
    /\ UNCHANGED decoratorVars

\* return itemRegistry.getItem(itemName)
LazyUse(c) ==
    /\ pc[c] = "use"
    /\ used' = used \cup {<<globalOf(callee[c]), globals[globalOf(callee[c])]>>}
    /\ pc' = [pc EXCEPT ![c] = "idle"]
    /\ UNCHANGED <<globals, callee, fetched, acquired, calls>>
    /\ UNCHANGED decoratorVars

\* Lookups from several execution contexts: nothing in the modules orders
\* the steps of one context with those of another.
NextLazy ==
    \E c \in Contexts :
        LazyCall(c) \/ LazyTest(c) \/ LazyGet(c) \/ LazyStore(c) \/ LazyUse(c)

SpecLazy == Init /\ [][NextLazy]_vars
\* ------------------------------------------------------------ properties

Applied == last.op # "none"
ParseFailed == last.parse.kind = "raise"

\* the phrase as the orchestrator sees it, and its first word
Target == strip(last.phrase)
HasFirstWord == Applied /\ split(Target) # <<>>
FirstWord == split(Target)[1]

\* What a phrase contributes to the side list under the annotation protocol:
\* its descriptors, or one None when parse fails.
Contribution(op, phrase) ==
    LET r == IF op = "when" THEN when_parse(phrase) ELSE onlyif_parse(phrase)
    IN  IF r.out.kind = "raise" THEN <<NoneEntry>> ELSE r.out.descs

RECURSIVE Contributions(_, _)
Contributions(op, h) ==
    IF h = <<>> THEN <<>>
    ELSE (IF Head(h).op = op THEN Contribution(op, Head(h).phrase) ELSE <<>>)
             \o Contributions(op, Tail(h))

FailingPhrases(h) ==
    Cardinality({n \in DOMAIN h : Contribution(h[n].op, h[n].phrase) = <<NoneEntry>>})

\* C1: a decorator applied with a phrase whose parse fails appends exactly
\* one None to the callback's side list, logs one warning and returns the
\* callback, and no exception reaches the caller.
C1_FailureAttachesSentinel ==
    [][ last'.parse.kind = "raise" =>
            /\ last'.returned
            /\ last'.raised = ""
            /\ warnings' = warnings + 1
            /\ IF last'.op = "when"
               THEN triggers' = Append(triggers, NoneEntry) /\ conditions' = conditions
               ELSE conditions' = Append(conditions, NoneEntry) /\ triggers' = triggers ]_vars

\* C2: after any sequence of decorators on one callback, each side list is
\* the concatenation, in order of application, of the contributions of its
\* phrases, and one warning was logged per failing phrase.
C2_SideListsAreConcatenations ==
    /\ triggers = Contributions("when", history)
    /\ conditions = Contributions("onlyif", history)
    /\ warnings = FailingPhrases(history)

\* the classes of the orchestrator the last decorator ran
ClassesOf(op) == IF op = "when" THEN triggerClasses ELSE conditionClasses
ClassParse(op, name, target) ==
    IF op = "when" THEN triggerClass_parse(name, target) ELSE conditionClass_parse(name, target)

\* the discriminators a list of classes registers
Discriminators(classes) == UNION {Range(classes[n].firstWord.words) : n \in DOMAIN classes}

\* the names of the classes registered under a first word, in registration order
RECURSIVE RegisteredUnder(_, _)
RegisteredUnder(classes, word) ==
    IF classes = <<>> THEN <<>>
    ELSE (IF lower(word) \in Range(Head(classes).firstWord.words)
          THEN <<Head(classes).name>> ELSE <<>>)
             \o RegisteredUnder(Tail(classes), word)

IsPrefixOf(a, b) == Len(a) <= Len(b) /\ SubSeq(b, 1, Len(a)) = a

SameOutcome(a, b) == a.kind = b.kind /\ a.descs = b.descs /\ a.exc = b.exc /\ a.msg = b.msg

\* C3: a phrase whose lower-cased first word equals no registered
\* discriminator fails with "Could not parse" and no class's parse
\* classmethod is called on it, in when and in onlyif.
C3_UnregisteredFirstWordIsRejectedUntried ==
    (HasFirstWord /\ lower(FirstWord) \notin Discriminators(ClassesOf(last.op)))
        => /\ last.parse.kind = "raise"
           /\ last.parse.msg = CouldNotParse
           /\ last.tried = <<>>

\* C4: parse calls the classes registered under the first word, in
\* registration order, up to the first one that does not decline; the outcome
\* is that class's, and "Could not parse" when every one of them declines.
C4_FirstRecognizingCandidateDecides ==
    HasFirstWord =>
        LET cands == RegisteredUnder(ClassesOf(last.op), FirstWord)
            tried == last.tried
            result(n) == ClassParse(last.op, tried[n], Target)
        IN  /\ IsPrefixOf(tried, cands)
            /\ \A n \in 1..(Len(tried) - 1) : result(n).kind = "none"
            /\ IF tried # <<>> /\ result(Len(tried)).kind # "none"
               THEN SameOutcome(last.parse, result(Len(tried)))
               ELSE tried = cands /\ last.parse.kind = "raise" /\ last.parse.msg = CouldNotParse

\* The item, thing or channel a class's pattern names in a phrase it matches.
NoReference == [registry |-> "none", id |-> <<>>]
ItemReference(m) == IF m = NoMatch THEN NoReference ELSE [registry |-> "item", id |-> m.itemName]
ThingReference(m) == IF m = NoMatch THEN NoReference ELSE [registry |-> "thing", id |-> m.thingUID]
ChannelReference(m) == IF m = NoMatch THEN NoReference ELSE [registry |-> "channel", id |-> m.channelUID]

Reference(class, target) ==
    CASE class = "DateTimeTrigger" -> ItemReference(DateTimeTrigger_match(target))
      [] class = "ItemStateUpdateTrigger" -> ItemReference(ItemStateUpdateTrigger_match(target))
      [] class = "ItemStateChangeTrigger" -> ItemReference(ItemStateChangeTrigger_match(target))
      [] class = "ItemCommandTrigger" -> ItemReference(ItemCommandTrigger_match(target))
      [] class = "ItemStateCondition" -> ItemReference(ItemStateCondition_match(target))
      [] class = "ThingStatusUpdateTrigger" -> ThingReference(ThingStatusUpdateTrigger_match(target))
      [] class = "ThingStatusChangeTrigger" -> ThingReference(ThingStatusChangeTrigger_match(target))
      [] class = "ChannelEventTrigger" -> ChannelReference(ChannelEventTrigger_match(target))
      [] OTHER -> NoReference

Absent(ref) ==
    CASE ref.registry = "item" -> getItem(ref.id) = PyNone
      [] ref.registry = "thing" -> getThing(ref.id) = PyNone
      [] ref.registry = "channel" -> getChannel(ref.id) = PyNone
      [] OTHER -> FALSE

InvalidReferenceMessages == {InvalidItemName, InvalidThingUID, InvalidChannelUID}

\* the n-th class parse called matched the phrase and names an entity the
\* registry does not hold
MatchedAbsent(n) == Absent(Reference(last.tried[n], Target))

\* C5: when a class that parse calls matches the phrase but the item, thing
\* or channel it names is not in the registry, parse raises the "Invalid ..."
\* ValueError there: that class is the last one called.
C5_InvalidReferenceEndsParse ==
    \A n \in DOMAIN last.tried :
        MatchedAbsent(n) =>
            /\ n = Len(last.tried)
            /\ last.parse.kind = "raise"
            /\ last.parse.exc = "ValueError"
            /\ last.parse.msg \in InvalidReferenceMessages

\* a parse that ended at an invalid reference while a class registered later
\* would have been called for the same first word
C5_Witness ==
    /\ HasFirstWord
    /\ last.tried # <<>>
    /\ MatchedAbsent(Len(last.tried))
    /\ last.parse.msg \in InvalidReferenceMessages
    /\ \E n \in DOMAIN ClassesOf(last.op) :
           /\ PyIn(lower(FirstWord), ClassesOf(last.op)[n].firstWord)
           /\ \A k \in DOMAIN last.tried : ClassesOf(last.op)[n].name # last.tried[k]
           /\ \E k \in 1..(n - 1) : ClassesOf(last.op)[k].name = last.tried[Len(last.tried)]

\* C6: an empty or all-whitespace phrase fails with the "expression is
\* length 0" ValueError before a first word is taken, in when and in onlyif.
C6_EmptyPhraseIsStructuredFailure ==
    (Applied /\ Target = <<>>)
        => /\ last.parse.kind = "raise"
           /\ last.parse.exc = "ValueError"
           /\ last.parse.msg = ExpressionIsLength0
           /\ last.tried = <<>>

\* the match of an item update / change / command class on a phrase
ItemGrammar_match(class, target) ==
    CASE class = "ItemStateUpdateTrigger" -> ItemStateUpdateTrigger_match(target)
      [] class = "ItemStateChangeTrigger" -> ItemStateChangeTrigger_match(target)
      [] class = "ItemCommandTrigger" -> ItemCommandTrigger_match(target)
      [] OTHER -> NoMatch

\* the configuration of a descriptor apart from the item it is for
ConfigurationButItem(d) == {e \in d.cfg : e.k # "itemName"}

\* the last class parse called is an item grammar that matched a
\* "Member of" / "Descendent of" phrase naming a group
GroupPhraseParsed ==
    /\ HasFirstWord
    /\ last.op = "when"
    /\ last.tried # <<>>
    /\ LET m == ItemGrammar_match(last.tried[Len(last.tried)], Target)
       IN  m # NoMatch /\ m.subItems # PyNone /\ IsGroup(m.itemName)

\* C7: "Member of G", in any letter case, gives one descriptor per immediate
\* member of G and "Descendent of G" one per transitive member, in the
\* registry's order, each for that member and otherwise the same.
C7_GroupExpansion ==
    GroupPhraseParsed =>
        LET m == ItemGrammar_match(last.tried[Len(last.tried)], Target)
            members == IF EqIC(m.subItems.v, <<"m","e","m","b","e","r">>)
                       THEN getMembers(m.itemName)
                       ELSE getAllMembers(m.itemName)
            descs == last.parse.descs
        IN  /\ last.parse.kind = "list"
            /\ Len(descs) = Len(members)
            /\ \A n \in DOMAIN descs :
                   /\ Entry("itemName", PyStr(members[n])) \in descs[n].cfg
                   /\ descs[n].typeUID = descs[1].typeUID
                   /\ ConfigurationButItem(descs[n]) = ConfigurationButItem(descs[1])

\* the phrase is "Time is <instant>" in some letter case
IsNamedInstant(instant) ==
    /\ HasFirstWord
    /\ last.op = "when"
    /\ Len(split(Target)) = 3
    /\ EqIC(split(Target)[1], <<"t","i","m","e">>)
    /\ EqIC(split(Target)[2], <<"i","s">>)
    /\ EqIC(split(Target)[3], instant)

\* C8: "Time is midnight" in any letter case gives the cron trigger of
\* 0 0 0 * * ? and "Time is noon" the one of 0 0 12 * * ?.
C8_NamedInstants ==
    /\ IsNamedInstant(<<"m","i","d","n","i","g","h","t">>) =>
           last.parse.kind = "one" /\ last.parse.descs = <<CronTrigger(MidnightCron)>>
    /\ IsNamedInstant(<<"n","o","o","n">>) =>
           last.parse.kind = "one" /\ last.parse.descs = <<CronTrigger(NoonCron)>>

\* the expressions a phrase of the cron shape stands for: the captured one,
\* or the literal of a named instant
ShapedCronExpressions(target) ==
    LET m == CronTrigger_match(target)
    IN  IF m.namedInstant = PyNone THEN {m.cronExpression.v} ELSE {MidnightCron, NoonCron}

\* parse called the cron class on a phrase that begins with its first word
CronWasTried ==
    /\ HasFirstWord
    /\ last.op = "when"
    /\ EqIC(FirstWord, <<"t","i","m","e">>)
    /\ \E n \in DOMAIN last.tried : last.tried[n] = "CronTrigger"

CronAnswered ==
    /\ CronWasTried
    /\ last.tried[Len(last.tried)] = "CronTrigger"
    /\ last.parse.kind = "one"

\* C9: the cron class gives a trigger exactly for the phrases of the shape
\* "Time cron <expr>" or "Time is midnight|noon" whose expression passes
\* isValidExpression, and the trigger holds that expression, not the phrase.
C9_CronShapeAndValidity ==
    CronWasTried =>
        LET shaped == CronTrigger_match(Target) # NoMatch
        IN  /\ CronAnswered => shaped
            /\ CronAnswered =>
                   \E e \in ShapedCronExpressions(Target) :
                       Entry("cronExpression", PyStr(e)) \in last.parse.descs[1].cfg
            /\ (shaped /\ \A e \in ShapedCronExpressions(Target) : isValidExpression(e))
                   => CronAnswered
            /\ (shaped /\ \A e \in ShapedCronExpressions(Target) : ~isValidExpression(e))
                   => last.parse.kind = "raise"

\* the ephemeris class matched the phrase with a negated predicate
NegatedDayParsed ==
    /\ HasFirstWord
    /\ last.op = "onlyif"
    /\ last.tried # <<>>
    /\ last.tried[Len(last.tried)] = "EphemerisCondition"
    /\ EphemerisCondition_match(Target) # NoMatch
    /\ EphemerisCondition_match(Target).not # PyNone

NegatedTypeUID(daytype) ==
    IF EqIC(daytype, <<"h","o","l","i","d","a","y">>) THEN "ephemeris.NotHolidayCondition"
    ELSE IF EqIC(daytype, <<"w","e","e","k","d","a","y">>) THEN "ephemeris.WeekendCondition"
    ELSE IF EqIC(daytype, <<"w","e","e","k","e","n","d">>) THEN "ephemeris.WeekdayCondition"
    ELSE "None"

\* C10: a negated holiday, weekday or weekend, in any letter case, gives the
\* not-holiday, weekend or weekday condition (with offset 0 for "Today is"),
\* and any other negated day type raises "Unable to negate custom daytype".
C10_Negation ==
    NegatedDayParsed =>
        LET m == EphemerisCondition_match(Target)
        IN  IF NegatedTypeUID(m.daytype) # "None"
            THEN /\ last.parse.kind = "one"
                 /\ last.parse.descs[1].typeUID = NegatedTypeUID(m.daytype)
                 /\ m.group = "today" => last.parse.descs[1].cfg = {Entry("offset", PyInt(<<"0">>))}
            ELSE /\ last.parse.kind = "raise"
                 /\ last.parse.msg = UnableToNegate


\* the operator token of each family of spellings
FamilyToken(group) ==
    CASE group = "eq" -> <<"=">>
      [] group = "neq" -> <<"!","=">>
      [] group = "lt" -> <<"<">>
      [] group = "lte" -> <<"<","=">>
      [] group = "gt" -> <<">">>
      [] group = "gte" -> <<">","=">>

\* the spellings the phrase "Item <name> <spelling> <state>" is written
\* with, in any letter case: there is at most one
WrittenSpellings(w) ==
    {a \in DOMAIN OperatorSpellings :
        LET lits == OperatorSpellings[a].lits
        IN  /\ Len(w) = Len(lits) + 3
            /\ EqIC(w[1], <<"i","t","e","m">>)
            /\ \A n \in DOMAIN lits : EqIC(w[n + 2], lits[n])}

ItemStateDescriptors ==
    {n \in DOMAIN last.parse.descs : last.parse.descs[n].typeUID = "core.ItemStateCondition"}

OperatorOf(desc) == {e.v : e \in {e \in desc.cfg : e.k = "operator"}}

\* an item-state condition was written with one of the spellings, on a known item
OperatorPhraseApplied ==
    /\ HasFirstWord
    /\ last.op = "onlyif"
    /\ WrittenSpellings(split(Target)) # {}
    /\ getItem(split(Target)[2]) # PyNone

\* C11: an item-state condition written with a spelling of an operator
\* family, in any letter case, on a known item gives one condition whose
\* operator is the token of that family; no item-state condition has an
\* operator that is None or outside the six tokens.
C11_OperatorNormalization ==
    /\ OperatorPhraseApplied =>
           /\ last.parse.kind = "one"
           /\ \A a \in WrittenSpellings(split(Target)) :
                  OperatorOf(last.parse.descs[1]) = {PyStr(FamilyToken(OperatorSpellings[a].group))}
    /\ Applied =>
           \A n \in ItemStateDescriptors :
               OperatorOf(last.parse.descs[n])
                   \subseteq {PyStr(FamilyToken(g)) : g \in {"eq", "neq", "lt", "lte", "gt", "gte"}}

\* "ITEM A IS LESS THAN OR EQUAL ON" was applied and gave the operator <=
C11_Witness ==
    /\ OperatorPhraseApplied
    /\ EqIC(Target, <<"i","t","e","m"," ","a"," ","i","s"," ","l","e","s","s"," ","t","h","a","n"," ","o","r"," ","e","q","u","a","l"," ","o","n">>)
    /\ Target # <<"I","t","e","m"," ","A"," ","i","s"," ","l","e","s","s"," ","t","h","a","n"," ","o","r"," ","e","q","u","a","l"," ","O","N">>
    /\ last.parse.kind = "one"
    /\ OperatorOf(last.parse.descs[1]) = {PyStr(<<"<","=">>)}

\* C12: every descriptor a successful parse returns has its type set and no
\* configuration key whose value is None.
C12_DescriptorsAreComplete ==
    Applied =>
        \A n \in DOMAIN last.parse.descs :
            /\ last.parse.descs[n].typeUID \notin {"", "None"}
            /\ \A e \in last.parse.descs[n].cfg : e.v # PyNone

\* C13: under any interleaving of lookups from concurrent contexts, each
\* lazily loaded handle is obtained from the script extension at most once
\* and every lookup is made on that one handle.
C13_HandleAcquiredOnce ==
    \A g \in LazyNames :
        /\ acquired[g] <= 1
        /\ Cardinality({u \in used : u[1] = g}) <= 1

\* the last class parse called is an item grammar that matched a
\* "Member of" / "Descendent of" phrase naming no group: no item, or an item
\* that is not a group
UnresolvableGroupParsed ==
    /\ HasFirstWord
    /\ last.op = "when"
    /\ last.tried # <<>>
    /\ LET m == ItemGrammar_match(last.tried[Len(last.tried)], Target)
       IN  m # NoMatch /\ m.subItems # PyNone /\ ~IsGroup(m.itemName)

\* C14: "Member of X" / "Descendent of X" where X is no item or no group
\* fails with "Invalid item name"; no other exception leaves parse and no
\* descriptor is returned.
C14_UnresolvableGroupIsInvalidReference ==
    UnresolvableGroupParsed =>
        /\ last.parse.kind = "raise"
        /\ last.parse.exc = "ValueError"
        /\ last.parse.msg = InvalidItemName
        /\ last.parse.descs = <<>>

\* the ephemeris class returned a condition for the phrase
EphemerisParsed ==
    /\ HasFirstWord
    /\ last.op = "onlyif"
    /\ last.tried # <<>>
    /\ last.tried[Len(last.tried)] = "EphemerisCondition"
    /\ last.parse.kind = "one"

\* the day displacement a phrase writes, as the text of an integer
Negated(number) == IF number[1] = "-" THEN Tail(number) ELSE <<"-">> \o number

WrittenOffset(w) ==
    IF IsIts(w[1]) \/ WordsAre(w, <<<<"t","o","d","a","y">>, <<"i","s">>>>) THEN <<"0">>
    ELSE IF WordsAre(w, <<<<"t","o","m","o","r","r","o","w">>, <<"i","s">>>>) THEN <<"1">>
    ELSE IF WordsAre(w, <<<<"y","e","s","t","e","r","d","a","y">>, <<"w","a","s">>>>) THEN <<"-","1">>
    ELSE IF WordsAre(w, <<<<"t","o","d","a","y">>, <<"p","l","u","s">>>>) THEN w[3]
    ELSE IF WordsAre(w, <<<<"t","o","d","a","y">>, <<"m","i","n","u","s">>>>) THEN Negated(w[3])
    ELSE w[3]

OffsetOf(desc) == {e.v : e \in {e \in desc.cfg : e.k = "offset"}}

\* C15: the offset of an ephemeris condition is the signed day displacement
\* the phrase writes, as an integer: 0 for "Today is" / "It's", 1 for
\* "Tomorrow is" / "Today plus 1", -1 for "Yesterday was" / "Today minus 1",
\* N for "Today plus N is", -N for "Today minus N is", K for "Today offset K is".
C15_OffsetIsSignedDisplacement ==
    EphemerisParsed =>
        OffsetOf(last.parse.descs[1]) = {PyInt(WrittenOffset(split(Target)))}

\* the directory class returned a trigger for the phrase
DirectoryParsed ==
    /\ HasFirstWord
    /\ last.op = "when"
    /\ last.tried # <<>>
    /\ last.tried[Len(last.tried)] = "DirectoryEventTrigger"
    /\ last.parse.kind = "one"

\* the kinds the bracketed list names, whatever the spacing and letter case
NamedKinds(options) ==
    (IF IsSubstring(<<"c","r","e","a","t","e","d">>, lower(options)) THEN {"ENTRY_CREATE"} ELSE {})
        \cup (IF IsSubstring(<<"d","e","l","e","t","e","d">>, lower(options)) THEN {"ENTRY_DELETE"} ELSE {})
        \cup (IF IsSubstring(<<"m","o","d","i","f","i","e","d">>, lower(options)) THEN {"ENTRY_MODIFY"} ELSE {})

ValueOf(desc, key) == {e.v : e \in {e \in desc.cfg : e.k = key}}

\* C16: the event kinds of a directory trigger are exactly the kinds its
\* bracketed list names, whatever the spacing and letter case, and
\* watch_subdirectories is true exactly for "Subdirectory" in any letter case.
C16_DirectoryOptions ==
    DirectoryParsed =>
        /\ \A v \in ValueOf(last.parse.descs[1], "event_kinds") :
               Range(v.v) = NamedKinds(DirectoryEventTrigger_match(Target).options)
        /\ ValueOf(last.parse.descs[1], "watch_subdirectories")
               = {PyBool(EqIC(FirstWord, <<"s","u","b","d","i","r","e","c","t","o","r","y">>))}
====
